---- MODULE Spec2Model ----
(***************************************************************************)
(* A model of jba/gdl: the lexer (src/lexer.go, the string-based lexer of  *)
(* lines 282-464), the parser (src/unnamed/part_001) and the decode engine *)
(* (src/unmarshal.go).                                                     *)
(*                                                                         *)
(* A Go string is a sequence of one-character strings.  The backquote      *)
(* character cannot be written in a TLA+ string literal, so it is the      *)
(* atom BQ.  A Go panic is a non-empty "panic" field of a result.          *)
(***************************************************************************)
EXTENDS Integers, Sequences, FiniteSets, TLC

VARIABLES
  mode,      \* which entry point of the package this behaviour drives
  input,     \* the source text handed to newLexer / Parse
  lex,       \* the lexer struct (lexer.go:282-289)
  lastOp,    \* the lexer method called last: "", "next", "peek", "unget"
  lastTok,   \* what that call returned (peek returns a kind only)
  out,       \* the tokens next() has delivered and that were not pushed back
  peeked,    \* the kinds peek() reported since the last next()
  firstErr,  \* the first error token next() returned, or NoTok
  panic,     \* the panic that ended the program, or ""
  res,       \* the result of Parse, or NoRes
  programs,  \* the package variable programs (unmarshal.go:105), by type name
  target,    \* the reflect.Value UnmarshalValues decodes into
  pending,   \* the Values UnmarshalValues has still to range over
  last,      \* the call of unmarshalValue made last: its Value and outcome
  frames,    \* for each goroutine, its stack of programFor/compile calls
  returned,  \* for each goroutine, what its call of programFor returned
  addrOf,    \* for each key of programs, the address of the *program stored
  firstOf    \* for each key of programs, the address stored for it first

lexvars == <<lex, lastTok, out, peeked, firstErr, res>>
uvars == <<programs, target, pending, last>>
gvars == <<frames, returned, addrOf, firstOf>>
vars == <<mode, input, lex, lastOp, lastTok, out, peeked, firstErr, panic, res,
          programs, target, pending, last, frames, returned, addrOf, firstOf>>

----------------------------------------------------------------------------
(* Bounds *)

MaxLexLen == 4      \* longest source text of the lexer specification
MaxOut == 5         \* most tokens one lexer behaviour delivers
MaxParseLen == 4    \* longest free-form source text handed to Parse
MaxInner == 4       \* longest text between the delimiters of a generated block
MaxVals == 3        \* most Values one call of UnmarshalValues is given
MaxProcs == 2       \* most goroutines that call programFor at once
MaxDepth == 4       \* deepest stack of programFor calls of one goroutine

----------------------------------------------------------------------------
(* Strings *)

BQ == "bq"

Drop(s, n) == SubSeq(s, n + 1, Len(s))
Take(s, n) == SubSeq(s, 1, n)

\* The strings over alphabet A of length at most n.
RECURSIVE StringsUpTo(_, _)
StringsUpTo(A, n) ==
  IF n = 0 THEN {<<>>}
  ELSE LET shorter == StringsUpTo(A, n - 1)
       IN shorter \cup {Append(s, c) : s \in {t \in shorter : Len(t) = n - 1}, c \in A}

\* unicode.IsSpace on the characters of the model.
IsSpace(c) == c \in {" ", "\t", "\n", "\r", "\f"}

\* The index of the first character of s that satisfies P, or 0.
FirstIdx(s, P(_)) ==
  IF \E i \in 1..Len(s) : P(s[i])
  THEN CHOOSE i \in 1..Len(s) : P(s[i]) /\ \A j \in 1..(i - 1) : ~P(s[j])
  ELSE 0

\* s[i-1:] of a found index i, "" when nothing was found (i = 0).
FromIdx(s, i) == IF i = 0 THEN <<>> ELSE Drop(s, i - 1)

\* <<s[:i-1], s[i-1:]>> of a found index i, <<s, "">> when nothing was found.
SplitIdx(s, i) == IF i = 0 THEN <<s, <<>>>> ELSE <<Take(s, i - 1), Drop(s, i - 1)>>

HorizontalStop(c) == c = "\n" \/ ~IsSpace(c)
skipHorizontalSpace(s) == FromIdx(s, FirstIdx(s, HorizontalStop))

\* scanWord returns <<word, rest>>.
WordStop(c) == IsSpace(c) \/ c \in {"(", ")", ";"}
scanWord(s) == SplitIdx(s, FirstIdx(s, WordStop))

----------------------------------------------------------------------------
(* Tokens and the lexer *)

tokWord == "w"
tokString == "s"
tokEOF == "E"
tokErr == "e"

\* token{}: the zero token.
NoTok == [kind |-> "", val |-> <<>>, err |-> <<>>]
Tok(k) == [kind |-> k, val |-> <<>>, err |-> <<>>]
TokVal(k, v) == [kind |-> k, val |-> v, err |-> <<>>]

newLexer(s, filename) ==
  [s |-> s, filename |-> filename, lineno |-> 1,
   ungotten |-> FALSE, untok |-> NoTok, errtok |-> NoTok]

\* What one pass of the loop of next() ends in: a token, an error to record, a
\* panic, or "continue loop"; with the rest of the input and the line counter.
ScanTok(t, s, n) ==
  [tok |-> t, err |-> <<>>, panic |-> "", again |-> FALSE, s |-> s, lineno |-> n]
ScanErr(e, s, n) ==
  [tok |-> NoTok, err |-> e, panic |-> "", again |-> FALSE, s |-> s, lineno |-> n]
ScanPanic(p, s, n) ==
  [tok |-> NoTok, err |-> <<>>, panic |-> p, again |-> FALSE, s |-> s, lineno |-> n]
ScanAgain(s, n) ==
  [tok |-> NoTok, err |-> <<>>, panic |-> "", again |-> TRUE, s |-> s, lineno |-> n]

\* The number of newlines in s.
RECURSIVE CountNewlines(_)
CountNewlines(s) ==
  IF Len(s) = 0 THEN 0
  ELSE (IF s[1] = "\n" THEN 1 ELSE 0) + CountNewlines(Drop(s, 1))

\* case '/' with a second slash (lexer.go:366-377): t is s[2:], i the index of
\* its first newline.  Without a newline the code drops sz = 1 more byte of t
\* and returns end-of-input.
IsNewline(c) == c = "\n"
commentAt(t, i, lineno) ==
  IF i > 0 THEN ScanAgain(Drop(t, i - 1), lineno)
  ELSE IF Len(t) < 1 THEN ScanPanic("slice bounds out of range", t, lineno)
  ELSE ScanTok(Tok(tokEOF), Drop(t, 1), lineno)
commentRest(t, lineno) == commentAt(t, FirstIdx(t, IsNewline), lineno)
scanComment(s, lineno) == commentRest(Drop(s, 2), lineno)

\* case '\\' (lexer.go:383-395): t is the input after the backslash and the
\* horizontal space behind it.  A continuation line, a backslash at the end of
\* the input, or neither: control then leaves the switch and reaches
\* panic("unreachable").
backslashAt_NewlineToken(t, lineno) ==
  IF Len(t) = 0 THEN ScanErr(<<"backlash at EOF">>, t, lineno)
  ELSE IF t[1] = "\n" THEN ScanTok(Tok("\n"), Drop(t, 1), lineno + 1)
  ELSE ScanPanic("unreachable", t, lineno)
backslashAt(t, lineno) ==
  IF Len(t) = 0 THEN ScanErr(<<"backlash at EOF">>, t, lineno)
  ELSE IF t[1] = "\n" THEN ScanAgain(Drop(t, 1), lineno + 1)
  ELSE ScanPanic("unreachable", t, lineno)
scanBackslash(s, lineno) == backslashAt(skipHorizontalSpace(Drop(s, 1)), lineno)

\* case '`' (lexer.go:397-409): a raw string, quotes included; i is the index
\* of the closing backquote in s[1:].
IsBQ(c) == c = BQ
rawAt(s, i, lineno) ==
  IF i > 0
  THEN ScanTok(TokVal(tokString, Take(s, i + 1)), Drop(s, i + 1),
               lineno + CountNewlines(SubSeq(s, 2, i)))
  ELSE ScanErr(<<"unterminated raw string started on line", lineno>>,
               s, lineno + CountNewlines(Drop(s, 1)))
scanRaw(s, lineno) == rawAt(s, FirstIdx(Drop(s, 1), IsBQ), lineno)

\* case '"' (lexer.go:411-430): the loop over s[1:] at index i.
RECURSIVE scanEscaped(_, _, _, _)
scanEscaped(s, i, backslashed, lineno) ==
  IF i > Len(s) - 1
  THEN ScanErr(<<"unterminated double-quoted string started on line", lineno>>, s, lineno)
  ELSE IF s[i + 1] = "\n"
  THEN ScanErr(<<"newline in double-quoted string started on line", lineno>>, s, lineno)
  ELSE IF s[i + 1] = "\"" /\ ~backslashed
  THEN ScanTok(TokVal(tokString, Take(s, i + 1)), Drop(s, i + 1), lineno)
  ELSE scanEscaped(s, i + 1, (~backslashed) /\ s[i + 1] = "\\", lineno)

\* default, and a single slash: a word.
wordTok(w, lineno) == ScanTok(TokVal(tokWord, w[1]), w[2], lineno)

scanSwitch_SemicolonKept(s, c, lineno) ==
  CASE c \in {"\n", "(", ")", ";"} -> ScanTok(Tok(c), Drop(s, 1), lineno)
    [] c = "/" /\ Len(s) > 1 /\ s[2] = "/" -> scanComment(s, lineno)
    [] c = "\\" -> scanBackslash(s, lineno)
    [] c = BQ -> scanRaw(s, lineno)
    [] c = "\"" -> scanEscaped(s, 1, FALSE, lineno)
    [] OTHER -> wordTok(scanWord(s), lineno)

\* The switch of next() on the first character c of s (lexer.go:355-437).
scanSwitch(s, c, lineno) ==
  CASE c \in {"\n", "(", ")", ";"} ->
         ScanTok(Tok(IF c = ";" THEN "\n" ELSE c), Drop(s, 1), lineno)
    [] c = "/" /\ Len(s) > 1 /\ s[2] = "/" -> scanComment(s, lineno)
    [] c = "\\" -> scanBackslash(s, lineno)
    [] c = BQ -> scanRaw(s, lineno)
    [] c = "\"" -> scanEscaped(s, 1, FALSE, lineno)
    [] OTHER -> wordTok(scanWord(s), lineno)

\* One pass of the loop of next() on s, horizontal space skipped (lexer.go:348-354).
scanAt(s, lineno) ==
  IF Len(s) = 0 THEN ScanTok(Tok(tokEOF), s, lineno)
  ELSE scanSwitch(s, s[1], IF s[1] = "\n" THEN lineno + 1 ELSE lineno)

\* The loop of next() (lexer.go:345-439): passes until one returns or panics.
RECURSIVE scanLoop(_, _)
scanResume(r) == IF r.again THEN scanLoop(r.s, r.lineno) ELSE r
scanLoop(s, lineno) == scanResume(scanAt(skipHorizontalSpace(s), lineno))

\* A lexer method's result: the lexer after the call, what it returned, and a panic.
LexRet(l, t, p) == [l |-> l, tok |-> t, panic |-> p]

\* lexer.error
lexError(l, err) ==
  IF l.errtok.kind = tokErr
  THEN LexRet(l, NoTok, "error called twice")
  ELSE LexRet([l EXCEPT !.errtok = [kind |-> tokErr, val |-> <<>>, err |-> err]],
              [kind |-> tokErr, val |-> <<>>, err |-> err], "")

\* The end of next(): the deferred l.s = s, and the token, error or panic of
\* the scan r.
scanned(l, r) ==
  IF r.panic # "" THEN LexRet([l EXCEPT !.s = r.s, !.lineno = r.lineno], NoTok, r.panic)
  ELSE IF r.err # <<>> THEN lexError([l EXCEPT !.s = r.s, !.lineno = r.lineno], r.err)
  ELSE LexRet([l EXCEPT !.s = r.s, !.lineno = r.lineno], r.tok, "")

\* next() without the check that makes errors sticky.
lexNext_NotSticky(l) ==
  IF l.ungotten THEN LexRet([l EXCEPT !.ungotten = FALSE], l.untok, "")
  ELSE scanned(l, scanLoop(l.s, l.lineno))

\* lexer.next
lexNext(l) ==
  IF l.ungotten THEN LexRet([l EXCEPT !.ungotten = FALSE], l.untok, "")
  ELSE IF l.errtok.kind = tokErr THEN LexRet(l, l.errtok, "")
  ELSE scanned(l, scanLoop(l.s, l.lineno))

\* peek() that forgets to mark the slot as filled.
peekFill_Consuming(r) ==
  IF r.panic # "" THEN r
  ELSE LexRet([r.l EXCEPT !.untok = r.tok], Tok(r.tok.kind), "")

\* lexer.peek, which returns the kind only: r is what its call of next() gave.
peekFill(r) ==
  IF r.panic # "" THEN r
  ELSE LexRet([r.l EXCEPT !.untok = r.tok, !.ungotten = TRUE], Tok(r.tok.kind), "")
lexPeek(l) ==
  IF ~l.ungotten THEN peekFill(lexNext(l))
  ELSE LexRet(l, Tok(l.untok.kind), "")

\* lexer.unget
lexUnget(l, tok) ==
  IF l.ungotten THEN LexRet(l, NoTok, "unget twice")
  ELSE LexRet([l EXCEPT !.untok = tok, !.ungotten = TRUE], NoTok, "")

\* The tokens that n calls of next() deliver, with no other call between them;
\* a panic ends the sequence.
RECURSIVE nextTokens(_, _)
tokensAfter(r, n) == IF r.panic # "" THEN <<>> ELSE <<r.tok>> \o nextTokens(r.l, n - 1)
nextTokens(l, n) == IF n = 0 THEN <<>> ELSE tokensAfter(lexNext(l), n)

----------------------------------------------------------------------------
(* strconv.Unquote on the strings the lexer returns.  The model's alphabets *)
(* hold no digits, so a numeric escape (\x, \u, \U, octal) never has its    *)
(* digits and is a syntax error like every unknown escape.                  *)

SimpleEscapes == {"a", "b", "f", "n", "r", "t", "v", "\\", "\""}
EscapeValue(c) ==
  CASE c = "n" -> "\n" [] c = "t" -> "\t" [] c = "r" -> "\r" [] c = "f" -> "\f"
    [] c = "a" -> "bel" [] c = "b" -> "bs" [] c = "v" -> "vt"
    [] OTHER -> c

\* The body of a double-quoted string from index i on, acc the value so far:
\* <<ok, value>>.
RECURSIVE unquoteEscaped(_, _, _)
unquoteEscaped(body, i, acc) ==
  IF i > Len(body) THEN <<TRUE, acc>>
  ELSE IF body[i] = "\\"
  THEN IF i + 1 <= Len(body) /\ body[i + 1] \in SimpleEscapes
       THEN unquoteEscaped(body, i + 2, Append(acc, EscapeValue(body[i + 1])))
       ELSE <<FALSE, <<>>>>
  ELSE IF body[i] \in {"\"", "\n"} THEN <<FALSE, <<>>>>
  ELSE unquoteEscaped(body, i + 1, Append(acc, body[i]))

\* A raw string keeps its characters, carriage returns dropped.
NotCR(c) == c # "\r"
Unquote(val) ==
  IF Len(val) < 2 \/ val[1] # val[Len(val)] THEN <<FALSE, <<>>>>
  ELSE IF val[1] = BQ
  THEN IF \E i \in 2..(Len(val) - 1) : val[i] = BQ THEN <<FALSE, <<>>>>
       ELSE <<TRUE, SelectSeq(SubSeq(val, 2, Len(val) - 1), NotCR)>>
  ELSE IF val[1] = "\"" THEN unquoteEscaped(SubSeq(val, 2, Len(val) - 1), 1, <<>>)
  ELSE <<FALSE, <<>>>>

----------------------------------------------------------------------------
(* The parser (src/unnamed/part_001).  A parse function returns its Values, *)
(* its error (<<>> is nil), a panic, and the lexer as it left it.           *)

POk(vals, l) == [vals |-> vals, err |-> <<>>, panic |-> "", l |-> l]
PErr(e, l) == [vals |-> <<>>, err |-> e, panic |-> "", l |-> l]
PPanic(p, l) == [vals |-> <<>>, err |-> <<>>, panic |-> p, l |-> l]
PFailed(r) == r.panic # "" \/ r.err # <<>>

ErrUnexpectedEOF == <<"unexpected EOF">>
ErrCloseFollowed ==
  <<"close delimiter must be followed by newline, EOF or another close delimiter">>
ErrUnexpectedClose == <<"unexpected close paren">>

newValue(words, l) == [Words |-> words, File |-> l.filename, Line |-> l.lineno]

\* skipNewlines: the first token that is no line separator.
RECURSIVE skipNewlines(_)
skipAgain(r) == IF r.panic = "" /\ r.tok.kind = "\n" THEN skipNewlines(r.l) ELSE r
skipNewlines(l) == skipAgain(lexNext(l))

\* case '(' of parseValues (part_001:87-96): one Value per Value of the list,
\* the words so far before its words, made when the list has been parsed.
expandList_NoPrefix(words, list) ==
  IF PFailed(list) THEN [list EXCEPT !.vals = <<>>] ELSE POk(list.vals, list.l)

expandList(words, list) ==
  IF PFailed(list) THEN [list EXCEPT !.vals = <<>>]
  ELSE POk([i \in 1..Len(list.vals) |-> newValue(words \o list.vals[i].Words, list.l)],
           list.l)

\* case ')' of parseValues (part_001:98-106): u is what unget gave.
ungotClose(words, u) ==
  IF u.panic # "" THEN PPanic(u.panic, u.l) ELSE POk(<<newValue(words, u.l)>>, u.l)

\* case tokString of parseValues (part_001:80-85): q is what Unquote gave.
RECURSIVE parseValuesFrom(_, _, _)
RECURSIVE parseList(_, _, _)
valuesNext(words, r) ==
  IF r.panic # "" THEN PPanic(r.panic, r.l) ELSE parseValuesFrom(r.tok, words, r.l)
unquoted(q, words, l) ==
  IF ~q[1] THEN PErr(<<"invalid syntax">>, l)
  ELSE valuesNext(Append(words, q[2]), lexNext(l))

\* The loop of parseValues (part_001:62-122) at token tok, words accumulated.
parseValuesFrom(tok, words, l) ==
  CASE tok.kind = tokEOF ->
         IF Len(words) > 0 THEN POk(<<newValue(words, l)>>, l) ELSE PErr(ErrUnexpectedEOF, l)
    [] tok.kind = "\n" ->
         IF Len(words) > 0 THEN POk(<<newValue(words, l)>>, l)
         ELSE PErr(<<"unexpected newline">>, l)
    [] tok.kind = tokWord -> valuesNext(Append(words, tok.val), lexNext(l))
    [] tok.kind = tokString -> unquoted(Unquote(tok.val), words, l)
    [] tok.kind = "(" -> expandList(words, parseList(l, ")", <<>>))
    [] tok.kind \in {")", "}", "]"} ->
         IF Len(words) = 0 THEN PPanic("bad close delimiter", l)
         ELSE ungotClose(words, lexUnget(l, tok))
    [] tok.kind = tokErr -> PErr(tok.err, l)
    [] OTHER -> PPanic("bad token kind", l)

parseValues(tok, l) == parseValuesFrom(tok, <<>>, l)

\* case close of parseList (part_001:134-143): k is what peek gave.
errOfNext(r) == IF r.panic # "" THEN PPanic(r.panic, r.l) ELSE PErr(r.tok.err, r.l)
afterClose_AnyFollower(k, close, vs) ==
  IF k.panic # "" THEN PPanic(k.panic, k.l)
  ELSE CASE k.tok.kind = tokErr -> errOfNext(lexNext(k.l))
         [] OTHER -> POk(vs, k.l)
\* The close case of parseList pushing the token it peeked at back again.
afterClose_PushBack(k, close, vs) ==
  IF k.panic # "" THEN PPanic(k.panic, k.l)
  ELSE CASE k.tok.kind = tokErr -> errOfNext(lexNext(k.l))
         [] k.tok.kind \in {close, "\n", tokEOF} ->
              ungotClose(<<>>, lexUnget(k.l, k.tok))
         [] OTHER -> PErr(ErrCloseFollowed, k.l)
afterClose(k, close, vs) ==
  IF k.panic # "" THEN PPanic(k.panic, k.l)
  ELSE CASE k.tok.kind = tokErr -> errOfNext(lexNext(k.l))
         [] k.tok.kind \in {close, "\n", tokEOF} -> POk(vs, k.l)
         [] OTHER -> PErr(ErrCloseFollowed, k.l)

\* The end of the loop body of parseList (part_001:147-151).
listMore(pv, close, vs) ==
  IF PFailed(pv) THEN [pv EXCEPT !.vals = <<>>] ELSE parseList(pv.l, close, vs \o pv.vals)

\* The loop body of parseList at the token r that skipNewlines gave.
listAt(r, close, vs) ==
  IF r.panic # "" THEN PPanic(r.panic, r.l)
  ELSE CASE r.tok.kind = tokEOF -> PErr(ErrUnexpectedEOF, r.l)
         [] r.tok.kind = close -> afterClose(lexPeek(r.l), close, vs)
         [] r.tok.kind \in {")", "}", "]"} -> PErr(<<"mismatched close delimiter">>, r.l)
         [] OTHER -> listMore(parseValues(r.tok, r.l), close, vs)

\* parseList (part_001:127-153), vs the Values so far.
parseList(l, close, vs) == listAt(skipNewlines(l), close, vs)

\* The loop of parse (part_001:41-55), vals the Values so far.
RECURSIVE parseLoop(_, _)
parseMore(pv, vals) ==
  IF PFailed(pv) THEN [pv EXCEPT !.vals = <<>>] ELSE parseLoop(pv.l, vals \o pv.vals)
parseAt(r, vals) ==
  IF r.panic # "" THEN PPanic(r.panic, r.l)
  ELSE CASE r.tok.kind = tokEOF -> POk(vals, r.l)
         [] r.tok.kind = ")" -> PErr(ErrUnexpectedClose, r.l)
         [] OTHER -> parseMore(parseValues(r.tok, r.l), vals)
parseLoop(l, vals) == parseAt(skipNewlines(l), vals)

\* parse: the deferred function puts the file name and lex.lineno before an error.
located(r) ==
  IF r.err # <<>> THEN [r EXCEPT !.err = <<r.l.filename, r.l.lineno, r.err>>] ELSE r
parse(s, filename) == located(parseLoop(newLexer(s, filename), <<>>))

Parse(s) == parse(s, "<no file>")

\* The word lists of a sequence of Values.
WordsOf(vals) == [i \in 1..Len(vals) |-> vals[i].Words]

----------------------------------------------------------------------------
(* The target types of the decode engine.  A reflect.Type is a record with  *)
(* its kind; a struct type is named and StructFields gives its fields, each *)
(* with its name, its type and the gdl struct tag.  Floating-point kinds    *)
(* are not modelled.                                                        *)

TString == [kind |-> "string"]
TInt == [kind |-> "int"]
TInt8 == [kind |-> "int8"]
TUint8 == [kind |-> "uint8"]
TBool == [kind |-> "bool"]
TSlice(elem) == [kind |-> "slice", elem |-> elem]
TPtr(elem) == [kind |-> "ptr", elem |-> elem]
TStruct(name) == [kind |-> "struct", name |-> name]

Field(name, type, tag) == [Name |-> name, Type |-> type, Tag |-> tag]

\* The words and field names of the model, as character sequences.
wModule == <<"M", "o", "d", "u", "l", "e">>
wVersion == <<"V", "e", "r", "s", "i", "o", "n">>
wName == <<"N", "a", "m", "e">>
wType == <<"T", "y", "p", "e">>
wReqs == <<"R", "e", "q", "s">>
wCount == <<"C", "o", "u", "n", "t">>
wGood == <<"G", "o", "o", "d">>
wValues == <<"V", "a", "l", "u", "e", "s">>
wArgs == <<"A", "r", "g", "s">>
wCommands == <<"C", "o", "m", "m", "a", "n", "d", "s">>
wRequires == <<"R", "e", "q", "u", "i", "r", "e", "s">>
wSmall == <<"S", "m", "a", "l", "l">>
wBig == <<"B", "i", "g">>
wItems == <<"I", "t", "e", "m", "s">>
wTrees == <<"T", "r", "e", "e", "s">>
wBoxes == <<"B", "o", "x", "e", "s">>
wA == <<"A">>
wB == <<"B">>
wC == <<"C">>
wGlasses == <<"G", "l", "a", "s", "s", "e", "s">>

\* The types of unmarshal_test.go (Require, namedReqs, thing, enum, nrs, Arg,
\* command, commands); pnrs, which is nrs with pointer elements; widths, a
\* struct of narrow integer fields; badenum, which is enum with its fields in
\* the other order; reqsNamed, which is namedReqs with its fields in the other
\* order; owner, a struct of two scalar fields and two collections;
\* Thing, the example of UnmarshalValue's documentation
\* (unmarshal.go lines 41-53); badouter, a struct with a collection of badenum; and shelf,
\* a struct of two collections whose names end in "es"; tree, a struct with a
\* collection of its own type; and ping and pong, each with a collection of
\* the other.
StructFields(name) ==
  CASE name = "Require" -> <<Field(wModule, TString, ""), Field(wVersion, TString, "")>>
    [] name = "namedReqs" -> <<Field(wName, TString, ""),
                               Field(wReqs, TSlice(TStruct("Require")), "")>>
    [] name = "thing" -> <<Field(wCount, TInt, ""), Field(wGood, TBool, "")>>
    [] name = "enum" -> <<Field(wName, TString, ""), Field(wValues, TSlice(TString), "")>>
    [] name = "Arg" -> <<Field(wName, TString, ""), Field(wType, TString, "")>>
    [] name = "command" -> <<Field(wName, TString, ",id"),
                             Field(wArgs, TSlice(TStruct("Arg")), "")>>
    [] name = "commands" -> <<Field(wCommands, TSlice(TStruct("command")), "")>>
    [] name = "nrs" -> <<Field(wRequires, TSlice(TStruct("Require")), "")>>
    [] name = "pnrs" -> <<Field(wRequires, TSlice(TPtr(TStruct("Require"))), "")>>
    [] name = "badenum" -> <<Field(wValues, TSlice(TString), ""), Field(wName, TString, "")>>
    [] name = "badouter" -> <<Field(wName, TString, ""),
                              Field(wItems, TSlice(TStruct("badenum")), "")>>
    [] name = "Thing" -> <<Field(wA, TInt, ""), Field(wB, TString, ""),
                           Field(wC, TSlice(TString), "")>>
    [] name = "reqsNamed" -> <<Field(wReqs, TSlice(TStruct("Require")), ""),
                               Field(wName, TString, "")>>
    [] name = "owner" -> <<Field(wA, TInt, ""), Field(wB, TString, ""),
                           Field(wReqs, TSlice(TStruct("Require")), ""),
                           Field(wBoxes, TSlice(TStruct("Require")), "")>>
    [] name = "tree" -> <<Field(wName, TString, ""),
                          Field(wTrees, TSlice(TStruct("tree")), "")>>
    [] name = "ping" -> <<Field(wArgs, TSlice(TStruct("pong")), "")>>
    [] name = "pong" -> <<Field(wArgs, TSlice(TPtr(TStruct("ping"))), "")>>
    [] name = "shelf" -> <<Field(wBoxes, TSlice(TStruct("Require")), ""),
                           Field(wGlasses, TSlice(TStruct("Require")), "")>>
    [] name = "widths" -> <<Field(wSmall, TInt8, ""), Field(wBig, TUint8, "")>>

\* reflect.Zero
RECURSIVE Zero(_)
FieldNamed(sfs, n) == sfs[CHOOSE i \in 1..Len(sfs) : sfs[i].Name = n]
ZeroStruct(sfs) ==
  [n \in {sfs[i].Name : i \in 1..Len(sfs)} |-> Zero(FieldNamed(sfs, n).Type)]
Zero(t) ==
  CASE t.kind = "string" -> <<>>
    [] t.kind \in {"int", "int8", "uint8"} -> 0
    [] t.kind = "bool" -> FALSE
    [] t.kind = "slice" -> <<>>
    [] t.kind = "ptr" -> "nil"
    [] t.kind = "struct" -> ZeroStruct(StructFields(t.name))

----------------------------------------------------------------------------
(* Scalar conversion.  A word is a sequence of characters; the strconv      *)
(* functions are modelled on base-10 words short enough that the 64-bit     *)
(* range error of ParseInt and ParseUint cannot arise (MaxDigits digits).   *)

DigitChars == <<"0", "1", "2", "3", "4", "5", "6", "7", "8", "9">>
IsDigit(c) == \E n \in 1..Len(DigitChars) : DigitChars[n] = c
DigitVal(c) == (CHOOSE n \in 1..Len(DigitChars) : DigitChars[n] = c) - 1

RECURSIVE Atoi(_)
Atoi(ds) ==
  IF ds = <<>> THEN 0
  ELSE 10 * Atoi(Take(ds, Len(ds) - 1)) + DigitVal(ds[Len(ds)])

ErrSyntax == "invalid syntax"
Parsed(n) == [err |-> "", n |-> n]
NotParsed == [err |-> ErrSyntax, n |-> 0]

\* strconv.ParseUint(s, 10, 64): digits only, no sign.
ParseUint(s) ==
  IF s = <<>> \/ \E i \in 1..Len(s) : ~IsDigit(s[i]) THEN NotParsed
  ELSE Parsed(Atoi(s))

Signed(sign, r) == IF r.err = "" /\ sign = "-" THEN Parsed(0 - r.n) ELSE r

\* strconv.ParseInt(s, 10, 64): an optional sign, then digits.
ParseInt(s) ==
  IF s = <<>> THEN NotParsed
  ELSE IF s[1] \in {"+", "-"} THEN Signed(s[1], ParseUint(Tail(s)))
  ELSE ParseUint(s)

w1 == <<"1">>
w0 == <<"0">>
wt == <<"t">>
wT == <<"T">>
wtrue == <<"t", "r", "u", "e">>
wTRUE == <<"T", "R", "U", "E">>
wTrue == <<"T", "r", "u", "e">>
wf == <<"f">>
wF == <<"F">>
wfalse == <<"f", "a", "l", "s", "e">>
wFALSE == <<"F", "A", "L", "S", "E">>
wFalse == <<"F", "a", "l", "s", "e">>

\* strconv.ParseBool
ParseBool(s) ==
  IF s \in {w1, wt, wT, wtrue, wTRUE, wTrue} THEN [err |-> "", b |-> TRUE]
  ELSE IF s \in {w0, wf, wF, wfalse, wFALSE, wFalse} THEN [err |-> "", b |-> FALSE]
  ELSE [err |-> ErrSyntax, b |-> FALSE]

\* reflect.Value.SetInt and SetUint store the 64-bit number at the width of
\* the field's kind, keeping the low bits.
SetInt(t, n) ==
  IF t.kind = "int8" THEN ((n + 128) % 256) - 128 ELSE n
SetUint(t, n) ==
  IF t.kind = "uint8" THEN n % 256 ELSE n

ScalarKinds == {"string", "int", "int8", "uint8", "bool"}

\* setScalarFunc(t) != nil
IsScalar(t) == t.kind \in ScalarKinds

Set(v) == [err |-> "", v |-> v]
NotSet(e, old) == [err |-> e, v |-> old]
setIntRet(t, old, r) == IF r.err # "" THEN NotSet(r.err, old) ELSE Set(SetInt(t, r.n))
setUintRet(t, old, r) == IF r.err # "" THEN NotSet(r.err, old) ELSE Set(SetUint(t, r.n))
setBoolRet(old, r) == IF r.err # "" THEN NotSet(r.err, old) ELSE Set(r.b)

\* setScalarFunc(t)(rv, s), for rv holding old: the error, and what rv holds
\* after the call.
setScalarFunc(t, old, s) ==
  CASE t.kind = "string" -> Set(s)
    [] t.kind \in {"int", "int8"} -> setIntRet(t, old, ParseInt(s))
    [] t.kind = "uint8" -> setUintRet(t, old, ParseUint(s))
    [] t.kind = "bool" -> setBoolRet(old, ParseBool(s))

Uppers == <<"A", "B", "C", "E", "F", "G", "I", "M", "N", "Q", "R", "S", "T", "U", "V">>
Lowers == <<"a", "b", "c", "e", "f", "g", "i", "m", "n", "q", "r", "s", "t", "u", "v">>

\* unicode.ToLower on the letters of the model
ToLower(c) ==
  IF \E i \in 1..Len(Uppers) : Uppers[i] = c
  THEN Lowers[CHOOSE i \in 1..Len(Uppers) : Uppers[i] = c]
  ELSE c

lowerFirst_EveryRune(s) == [i \in 1..Len(s) |-> ToLower(s[i])]

lowerFirst(s) == IF Len(s) = 0 THEN s ELSE <<ToLower(s[1])>> \o Tail(s)

plural(s) ==
  IF Len(s) = 0 THEN s
  ELSE IF s[Len(s)] \in {"s", "x"} THEN s \o <<"e", "s">>
  ELSE s \o <<"s">>

----------------------------------------------------------------------------
(* Programs.  A program holds its type, the index of its ID field ("nil"    *)
(* when it has none) and its operations.  Go keeps the operations in one    *)
(* map[any]op whose keys are ints (positions) and strings (selectors); keys *)
(* of different dynamic type never collide, so the model keeps one map for  *)
(* each: iops and wops.  An op is the closure's captured variables.         *)

NoMap == <<>>
Put(m, k, v) == (k :> v) @@ m

NewProgram(t) == [t |-> t, idIndex |-> "nil", iops |-> NoMap, wops |-> NoMap]

scalarOp(sf) == [kind |-> "scalar", sf |-> sf]
scalarsOp(sf) == [kind |-> "scalars", sf |-> sf]
structsOp(sf, subprog) == [kind |-> "structs", sf |-> sf, subprog |-> subprog]
NoOp == [kind |-> "nil"]

\* strings.Cut(tag, ","): what follows the first comma ("" when none)
AfterComma(tag) ==
  CASE tag = ",id" -> "id"
    [] tag = "id" -> ""
    [] tag = "" -> ""

IdRet(ii, err) == [ii |-> ii, err |-> err]

idIndex(sfs) ==
  IF Len(sfs) = 0 THEN IdRet("nil", "")
  ELSE IF sfs[1].Tag = "" THEN IdRet("nil", "")
  ELSE IF AfterComma(sfs[1].Tag) # "id" THEN IdRet("nil", "")
  ELSE IF sfs[1].Type.kind # "string" THEN IdRet("nil", "ID field must be a string")
  ELSE IdRet(sfs[1].Name, "")

\* What compile and programFor return: the program, the error, and the
\* programs cache as the call left it.
CompOk(p, progs) == [p |-> p, err |-> "", progs |-> progs]
CompErr(e, progs) == [p |-> NewProgram(TString), err |-> e, progs |-> progs]

\* elemType after line 229-231
Deref(elemType) == IF elemType.kind = "ptr" THEN elemType.elem ELSE elemType

RECURSIVE compileLoop(_, _, _, _, _)
RECURSIVE compile(_, _)

storeRet(t, r) ==
  IF r.err # "" THEN r ELSE CompOk(r.p, Put(r.progs, t.name, r.p))

programFor(t, progs) ==
  IF t.kind = "struct" /\ t.name \in DOMAIN progs THEN CompOk(progs[t.name], progs)
  ELSE storeRet(t, compile(t, progs))

\* The struct-slice branch once programFor(elemType) has returned r.
structsField(t, sfs, i, p, sf, r) ==
  IF r.err # "" THEN CompErr(r.err, r.progs)
  ELSE compileLoop(t, sfs, i + 1,
         [p EXCEPT !.wops = Put(Put(p.wops, sf.Name, structsOp(sf, r.p)),
                                lowerFirst(sf.Name), structsOp(sf, r.p))],
         r.progs)

\* One iteration of the loop over the fields, for field sf at index i.
ErrNotLast == "scalar slice field must be last field"

compileField_NoLastCheck(t, sfs, i, p, progs, sf) ==
  IF IsScalar(sf.Type)
  THEN compileLoop(t, sfs, i + 1, [p EXCEPT !.iops = Put(p.iops, i, scalarOp(sf))], progs)
  ELSE IF sf.Type.kind # "slice" THEN compileLoop(t, sfs, i + 1, p, progs)
  ELSE IF IsScalar(sf.Type.elem)
  THEN compileLoop(t, sfs, i + 1, [p EXCEPT !.iops = Put(p.iops, i, scalarsOp(sf))], progs)
  ELSE structsField(t, sfs, i, p, sf, programFor(Deref(sf.Type.elem), progs))

compileField(t, sfs, i, p, progs, sf) ==
  IF IsScalar(sf.Type)
  THEN compileLoop(t, sfs, i + 1, [p EXCEPT !.iops = Put(p.iops, i, scalarOp(sf))], progs)
  ELSE IF sf.Type.kind # "slice" THEN compileLoop(t, sfs, i + 1, p, progs)
  ELSE IF IsScalar(sf.Type.elem)
  THEN IF i + 1 # Len(sfs) THEN CompErr(ErrNotLast, progs)
       ELSE compileLoop(t, sfs, i + 1, [p EXCEPT !.iops = Put(p.iops, i, scalarsOp(sf))], progs)
  ELSE structsField(t, sfs, i, p, sf, programFor(Deref(sf.Type.elem), progs))

\* The loop of compile over sfs, from index i (counted from 0 as in Go).
compileLoop(t, sfs, i, p, progs) ==
  IF i >= Len(sfs) THEN CompOk(p, progs)
  ELSE compileField(t, sfs, i, p, progs, sfs[i + 1])

compileWithId(t, sfs, progs, id) ==
  IF id.err # "" THEN CompErr(id.err, progs)
  ELSE compileLoop(t, IF id.ii # "nil" THEN Tail(sfs) ELSE sfs, 0,
                   [NewProgram(t) EXCEPT !.idIndex = id.ii], progs)

compile(t, progs) ==
  IF t.kind # "struct" THEN CompErr("not a struct", progs)
  ELSE compileWithId(t, StructFields(t.name), progs, idIndex(StructFields(t.name)))

FindRet(op, byIndex) == [op |-> op, byIndex |-> byIndex]

findWord_NoPlural(p, w) ==
  IF w \in DOMAIN p.wops THEN FindRet(p.wops[w], FALSE)
  ELSE FindRet(NoOp, FALSE)

findWord(p, w) ==
  IF w \in DOMAIN p.wops THEN FindRet(p.wops[w], FALSE)
  ELSE IF plural(w) \in DOMAIN p.wops THEN FindRet(p.wops[plural(w)], FALSE)
  ELSE FindRet(NoOp, FALSE)

findOp_WordFirst(p, i, w) ==
  IF findWord(p, lowerFirst(w)).op.kind # "nil" THEN findWord(p, lowerFirst(w))
  ELSE IF i \in DOMAIN p.iops THEN FindRet(p.iops[i], TRUE)
  ELSE FindRet(NoOp, FALSE)

findOp(p, i, w) ==
  IF i \in DOMAIN p.iops THEN FindRet(p.iops[i], TRUE)
  ELSE findWord(p, lowerFirst(w))

----------------------------------------------------------------------------
(* Running a program.  A reflect.Value is its type and what it holds: a     *)
(* struct holds a function from field names to values, a slice a sequence,  *)
(* a nil pointer "nil".  Go's ops write through rv; here an op returns rv   *)
(* as it left it, whether it failed or not.  used counts the words handed   *)
(* to an operation or matched as a selector or ID, and nomatch records that *)
(* findOp found no operation for a word.                                    *)

RV(t, v) == [t |-> t, v |-> v]

OpRet(rv, words, err, pnc, used, nomatch) ==
  [rv |-> rv, words |-> words, err |-> err, panic |-> pnc, used |-> used,
   nomatch |-> nomatch]

PanicField == "reflect: call of reflect.Value.Field on ptr Value"

\* rv.FieldByIndexErr panics unless rv is a struct
CanField(rv) == rv.t.kind = "struct"

SetField(rv, sf, v) == [rv EXCEPT !.v = [rv.v EXCEPT ![sf.Name] = v]]

scalarRet(rv, sf, words, r) ==
  OpRet(SetField(rv, sf, r.v), Tail(words), r.err, "", 1, FALSE)

runScalar_SetOnce(sf, rv, words) ==
  IF ~CanField(rv) THEN OpRet(rv, <<>>, "", PanicField, 0, FALSE)
  ELSE IF rv.v[sf.Name] # Zero(sf.Type)
  THEN OpRet(rv, Tail(words), "occurs more than once", "", 1, FALSE)
  ELSE scalarRet(rv, sf, words, setScalarFunc(sf.Type, rv.v[sf.Name], words[1]))

\* The op of a scalar field (lines 190-197)
runScalar(sf, rv, words) ==
  IF ~CanField(rv) THEN OpRet(rv, <<>>, "", PanicField, 0, FALSE)
  ELSE scalarRet(rv, sf, words, setScalarFunc(sf.Type, rv.v[sf.Name], words[1]))

RECURSIVE scalarsLoop(_, _, _, _)
scalarsSet(et, fv, words, k, r) ==
  IF r.err # "" THEN [fv |-> Append(fv, r.v), err |-> r.err, used |-> k]
  ELSE scalarsLoop(et, Append(fv, r.v), words, k)

\* The loop over words of a scalar-slice op (lines 218-223), after k words
scalarsLoop(et, fv, words, k) ==
  IF k >= Len(words) THEN [fv |-> fv, err |-> "", used |-> k]
  ELSE scalarsSet(et, fv, words, k + 1, setScalarFunc(et, Zero(et), words[k + 1]))

scalarsRet(rv, sf, r) == OpRet(SetField(rv, sf, r.fv), <<>>, r.err, "", r.used, FALSE)

runScalars_OneWord(sf, rv, words) ==
  IF ~CanField(rv) THEN OpRet(rv, <<>>, "", PanicField, 0, FALSE)
  ELSE scalarsRet(rv, sf, scalarsLoop(sf.Type.elem, rv.v[sf.Name], Take(words, 1), 0))

\* The op of a scalar-slice field (lines 212-225)
runScalars(sf, rv, words) ==
  IF ~CanField(rv) THEN OpRet(rv, <<>>, "", PanicField, 0, FALSE)
  ELSE scalarsRet(rv, sf, scalarsLoop(sf.Type.elem, rv.v[sf.Name], words, 0))

\* The loop of lines 248-257: the index (from 1) of the element elem is left
\* at, 0 when elem was never assigned.  The loop breaks at the first element
\* whose ID is w; when none is, elem stays at the last element it visited.
idLookup_AlwaysNew(fv, id, w) == 0
idLookup(fv, id, w) ==
  IF \E i \in 1..Len(fv) : fv[i][id] = w
  THEN CHOOSE i \in 1..Len(fv) : fv[i][id] = w /\ \A j \in 1..(i - 1) : fv[j][id] # w
  ELSE Len(fv)

RECURSIVE run(_, _, _)

\* subprog.run(elem, words) has returned r for the element at index k of fv:
\* the element is part of rv's field.
structsRet(rv, sf, fv, k, idUsed, r) ==
  OpRet(SetField(rv, sf, [fv EXCEPT ![k] = r.rv.v]), <<>>, r.err, r.panic,
        idUsed + r.used, r.nomatch)

runElem(op, rv, fv, k, idUsed, words) ==
  structsRet(rv, op.sf, fv, k, idUsed,
             run(op.subprog, RV(op.sf.Type.elem, fv[k]), words))

\* Lines 258-266: no element was visited, a new one is appended.
newElem(op, rv, fv, words) ==
  IF op.sf.Type.elem.kind = "ptr"
  THEN OpRet(SetField(rv, op.sf, Append(fv, Zero(op.sf.Type.elem))), <<>>, "",
             PanicField, 0, FALSE)
  ELSE runElem(op, rv,
               Append(fv, [Zero(op.sf.Type.elem) EXCEPT ![op.subprog.idIndex] = words[1]]),
               Len(fv) + 1, 1, Tail(words))

atElem(op, rv, fv, words, k) ==
  IF k = 0 THEN newElem(op, rv, fv, words)
  ELSE runElem(op, rv, fv, k, 1, Tail(words))

\* Lines 244-267: the element of a collection whose elements have an ID.
withId(op, rv, fv, words) ==
  IF Len(words) = 0
  THEN OpRet(rv, <<>>, "no words for struct with ID", "", 0, FALSE)
  ELSE IF Len(fv) > 0 /\ op.sf.Type.elem.kind = "ptr"
  THEN OpRet(rv, <<>>, "", PanicField, 0, FALSE)
  ELSE atElem(op, rv, fv, words, idLookup(fv, op.subprog.idIndex, words[1]))

\* The op of a struct-slice field (lines 237-273)
runStructs(op, rv, words) ==
  IF ~CanField(rv) THEN OpRet(rv, <<>>, "", PanicField, 0, FALSE)
  ELSE IF op.subprog.idIndex # "nil" THEN withId(op, rv, rv.v[op.sf.Name], words)
  ELSE runElem(op, rv, Append(rv.v[op.sf.Name], Zero(op.sf.Type.elem)),
               Len(rv.v[op.sf.Name]) + 1, 0, words)

applyOp(op, rv, words) ==
  CASE op.kind = "scalar" -> runScalar(op.sf, rv, words)
    [] op.kind = "scalars" -> runScalars(op.sf, rv, words)
    [] op.kind = "structs" -> runStructs(op, rv, words)

RunRet(rv, err, pnc, used, nomatch) ==
  [rv |-> rv, err |-> err, panic |-> pnc, used |-> used, nomatch |-> nomatch]

RECURSIVE runLoop(_, _, _, _, _, _)

runOpRet(p, words, used, nomatch, r) ==
  IF r.panic # "" \/ r.err # ""
  THEN RunRet(r.rv, r.err, r.panic, used + r.used, nomatch \/ r.nomatch)
  ELSE runLoop(p, r.rv, words, r.words, used + r.used, nomatch \/ r.nomatch)

runFound_SkipUnmatched(p, rv, words, ws, used, nomatch, f) ==
  IF f.op.kind = "nil" THEN runLoop(p, rv, words, Tail(ws), used, TRUE)
  ELSE IF f.byIndex THEN runOpRet(p, words, used, nomatch, applyOp(f.op, rv, ws))
  ELSE runOpRet(p, words, used + 1, nomatch, applyOp(f.op, rv, Tail(ws)))

\* Lines 136-146: findOp has returned f for ws[0].
runFound(p, rv, words, ws, used, nomatch, f) ==
  IF f.op.kind = "nil" THEN RunRet(rv, "could not set", "", used, TRUE)
  ELSE IF f.byIndex THEN runOpRet(p, words, used, nomatch, applyOp(f.op, rv, ws))
  ELSE runOpRet(p, words, used + 1, nomatch, applyOp(f.op, rv, Tail(ws)))

\* run() that demands a word for every scalar field.
runLoop_AllScalars(p, rv, words, ws, used, nomatch) ==
  IF Len(ws) = 0
  THEN IF \E i \in DOMAIN p.iops : i >= Len(words) /\ p.iops[i].kind = "scalar"
       THEN RunRet(rv, "missing word", "", used, nomatch)
       ELSE RunRet(rv, "", "", used, nomatch)
  ELSE runFound(p, rv, words, ws, used, nomatch,
                findOp(p, Len(words) - Len(ws), ws[1]))

\* The loop of run, with ws the words still to match.
runLoop(p, rv, words, ws, used, nomatch) ==
  IF Len(ws) = 0 THEN RunRet(rv, "", "", used, nomatch)
  ELSE runFound(p, rv, words, ws, used, nomatch,
                findOp(p, Len(words) - Len(ws), ws[1]))

run(p, rv, words) == runLoop(p, rv, words, words, 0, FALSE)

\* An error with the position of the Value it is about (fmt.Errorf
\* "%s:%d: %w"); msg is "" for nil.
NoError == [msg |-> "", File |-> "", Line |-> 0]
ErrAt(v, msg) == IF msg = "" THEN NoError ELSE [msg |-> msg, File |-> v.File, Line |-> v.Line]

URet(rv, err, pnc, progs, used, nomatch) ==
  [rv |-> rv, err |-> err, panic |-> pnc, progs |-> progs, used |-> used,
   nomatch |-> nomatch]

ranRet(v, progs, r) == URet(r.rv, ErrAt(v, r.err), r.panic, progs, r.used, r.nomatch)

compiledRet(v, rv, c) ==
  IF c.err # "" THEN URet(rv, ErrAt(v, c.err), "", c.progs, 0, FALSE)
  ELSE ranRet(v, c.progs, run(c.p, rv, v.Words))

unmarshalValue(v, rv, progs) ==
  IF rv.t.kind # "struct" THEN URet(rv, NoError, "expected struct", progs, 0, FALSE)
  ELSE compiledRet(v, rv, programFor(rv.t, progs))

----------------------------------------------------------------------------
(* The lexer driven method by method *)

NoRes == POk(<<>>, newLexer(<<>>, ""))

\* The decode engine before any call of it
NoValue == [Words |-> <<>>, File |-> "", Line |-> 0]
NoLast == [val |-> NoValue, err |-> NoError, used |-> 0, nomatch |-> FALSE,
           before |-> RV(TString, <<>>)]
UnmIdle ==
  /\ programs = NoMap
  /\ target = RV(TString, <<>>)
  /\ pending = <<>>
  /\ last = NoLast

\* No goroutine has called programFor
GoIdle ==
  /\ frames = <<>>
  /\ returned = <<>>
  /\ addrOf = NoMap
  /\ firstOf = NoMap

LexAlphabet == {"x", " ", "\n", ";", "(", "/", "\\", "\""}
LexInputs == StringsUpTo(LexAlphabet, MaxLexLen)

InitLex ==
  /\ mode = "lex"
  /\ input \in LexInputs
  /\ lex = newLexer(input, "tc")
  /\ lastOp = ""
  /\ lastTok = NoTok
  /\ out = <<>>
  /\ peeked = {}
  /\ firstErr = NoTok
  /\ panic = ""
  /\ res = NoRes
  /\ UnmIdle
  /\ GoIdle

\* A caller calls next(): r is what the call gave.
NextRet(r) ==
  /\ lex' = r.l
  /\ panic' = r.panic
  /\ lastOp' = "next"
  /\ lastTok' = r.tok
  /\ out' = IF r.panic = "" THEN Append(out, r.tok) ELSE out
  /\ firstErr' = IF firstErr = NoTok /\ r.tok.kind = tokErr THEN r.tok ELSE firstErr
  /\ peeked' = IF lastOp = "peek" THEN peeked ELSE {}
  /\ UNCHANGED <<mode, input, res, uvars, gvars>>

LexerNext ==
  /\ mode = "lex" /\ panic = "" /\ Len(out) < MaxOut
  /\ NextRet(lexNext(lex))

\* A caller calls peek(): r is what the call gave.
PeekRet(r) ==
  /\ lex' = r.l
  /\ panic' = r.panic
  /\ lastOp' = "peek"
  /\ lastTok' = r.tok
  /\ peeked' = IF r.panic # "" THEN peeked
               ELSE IF lastOp = "peek" THEN peeked \cup {r.tok.kind}
               ELSE {r.tok.kind}
  /\ UNCHANGED <<mode, input, out, firstErr, res, uvars, gvars>>

LexerPeek ==
  /\ mode = "lex" /\ panic = ""
  /\ PeekRet(lexPeek(lex))

\* A caller pushes back the token next() just gave it (parseValues, part_001:105).
UngetRet(r) ==
  /\ lex' = r.l
  /\ panic' = r.panic
  /\ lastOp' = "unget"
  /\ lastTok' = NoTok
  /\ out' = Take(out, Len(out) - 1)
  /\ peeked' = {}
  /\ UNCHANGED <<mode, input, firstErr, res, uvars, gvars>>

LexerUnget ==
  /\ mode = "lex" /\ panic = "" /\ lastOp = "next"
  /\ UngetRet(lexUnget(lex, lastTok))

NextLex == LexerNext \/ LexerPeek \/ LexerUnget

SpecLex == InitLex /\ [][NextLex]_vars

----------------------------------------------------------------------------
(* Claims about the lexer *)

\* C8: lexical errors are sticky: once next() has returned an error token,
\* every later next() returns that same token and every later peek() reports
\* the error kind, whatever input remains, and error() is not called again.
C8_StickyError ==
  /\ panic # "error called twice"
  /\ firstErr # NoTok =>
       /\ lex.errtok = firstErr
       /\ lastOp = "next" => lastTok = firstErr
       /\ lastOp = "peek" => lastTok.kind = tokErr

\* C8's case: next() returned the error twice in a row while input remains.
C8_Witness ==
  /\ lastOp = "next"
  /\ Len(out) >= 2
  /\ out[Len(out) - 1].kind = tokErr
  /\ out[Len(out)] = firstErr
  /\ Len(lex.s) > 0

\* C9: peek() does not consume: the next() after consecutive peeks returns a
\* token of the kind each of them reported, and the tokens next() has
\* delivered are those that the same number of next() calls deliver when no
\* peek() is made at all.
C9_PeekDoesNotConsume ==
  /\ (lastOp = "next" /\ panic = "") => \A k \in peeked : k = lastTok.kind
  /\ out = nextTokens(newLexer(input, "tc"), Len(out))

\* C9's case: a word was peeked and then delivered, after an earlier token.
C9_Witness ==
  /\ lastOp = "next"
  /\ peeked = {tokWord}
  /\ lastTok.kind = tokWord
  /\ Len(out) >= 2

----------------------------------------------------------------------------
(* Parse called on a source text *)

ParseAlphabet == {"x", " ", "\n", ";", "(", ")", "/", "\\", "\""}
BlockAlphabet == {"x", "y", "\n", ";", "(", ")"}

\* The prefix words of the generated blocks, as written and as words.
Prefixes ==
  { [text |-> <<>>, words |-> <<>>],
    [text |-> <<"x">>, words |-> <<(<<"x">>)>>],
    [text |-> <<"x", " ", "y">>, words |-> <<(<<"x">>), (<<"y">>)>>] }

Block(p, inner) == p.text \o <<"(">> \o inner \o <<")">>

\* Two lines with a backslash at the end of the first: behind a space or
\* right behind the first line's last word, with or without a space after it.
Continued(u, sep, h, v) == u \o sep \o <<"\\">> \o h \o <<"\n">> \o v
LineTexts == {<<>>, <<"x">>, <<"x", " ", "y">>}
ContinuedLines ==
  {Continued(u, sep, h, v) : u \in LineTexts, sep \in {<<>>, <<" ">>},
                             h \in {<<>>, <<" ">>}, v \in LineTexts}

\* What follows the close delimiter of a generated block.
Suffixes ==
  {<<>>, <<"\n">>, <<";">>, <<";", "x">>, <<"\n", "x">>, <<" ", "\n", "y">>,
   <<")">>, <<" ", ")">>, <<"x">>, <<" ", "x">>, <<"(">>, <<" ", "(", "x", ")">>,
   <<"\"", "\"">>, <<" ", "\"", "x", "\"">>}
ShortInners == StringsUpTo(BlockAlphabet, 2) \cup {<<"\n">> \o s : s \in StringsUpTo({"x"}, 1)}
BlockThen ==
  {Block(p, inner) \o suf : p \in Prefixes, inner \in ShortInners, suf \in Suffixes}

\* Blocks whose last line ends in a comment that holds the close delimiter.
CommentedBlocks ==
  {Block(p, u \o <<" ", "/", "/">> \o c) : p \in Prefixes, u \in LineTexts,
                                            c \in {<<>>, <<"c">>, <<"c", "d">>}}

ParseInputs ==
  StringsUpTo(ParseAlphabet, MaxParseLen)
    \cup {Block(p, inner) : p \in Prefixes, inner \in StringsUpTo(BlockAlphabet, MaxInner)}
    \cup ContinuedLines
    \cup BlockThen
    \cup CommentedBlocks

InitParse ==
  /\ mode = "parse"
  /\ input \in ParseInputs
  /\ lex = newLexer(input, "<no file>")
  /\ lastOp = ""
  /\ lastTok = NoTok
  /\ out = <<>>
  /\ peeked = {}
  /\ firstErr = NoTok
  /\ panic = ""
  /\ res = NoRes
  /\ UnmIdle
  /\ GoIdle

\* Parse(input) runs to its end: r is what it returned.
ParseRet(r) ==
  /\ res' = r
  /\ lex' = r.l
  /\ panic' = r.panic
  /\ lastOp' = "Parse"
  /\ UNCHANGED <<mode, input, lastTok, out, peeked, firstErr, uvars, gvars>>

DoParse ==
  /\ mode = "parse" /\ lastOp = ""
  /\ ParseRet(Parse(input))

NextParse == DoParse

SpecParse == InitParse /\ [][NextParse]_vars

----------------------------------------------------------------------------
(* Claims about Parse *)

\* input is p's words, an open delimiter, a text of the block alphabet, and a
\* close delimiter.
IsBlockOf(s, p) ==
  /\ Len(s) >= Len(p.text) + 2
  /\ Take(s, Len(p.text)) = p.text
  /\ s[Len(p.text) + 1] = "("
  /\ s[Len(s)] = ")"
  /\ \A i \in (Len(p.text) + 2)..(Len(s) - 1) : s[i] \in BlockAlphabet
InnerOf(s, p) == SubSeq(s, Len(p.text) + 2, Len(s) - 1)

\* Each word list of ws with the words of prefix before it.
Prefixed(prefix, ws) == [i \in 1..Len(ws) |-> prefix \o ws[i]]

ExpandsTo(r, prefix, inner) ==
  ~PFailed(inner) =>
    /\ ~PFailed(r)
    /\ WordsOf(r.vals) = Prefixed(prefix, WordsOf(inner.vals))

\* C1: a repetition block expands to one Value per inner Value, in source
\* order, each the prefix words followed by the inner Value's words: whenever
\* the text between the delimiters parses on its own to n Values, Parse of
\* prefix(text) succeeds with exactly those n word lists, each behind the
\* prefix words.  Nested blocks are texts that hold a block; an empty prefix
\* leaves the inner word lists as they are.
C1_BlockExpands ==
  lastOp = "Parse" =>
    \A p \in Prefixes :
      IsBlockOf(input, p) => ExpandsTo(res, p.words, Parse(InnerOf(input, p)))

\* C1's case: "x y(x;y)" parsed, a block behind two prefix words that
\* expands to two Values.
C1_Witness ==
  /\ lastOp = "Parse"
  /\ input = <<"x", " ", "y", "(", "x", ";", "y", ")">>
  /\ WordsOf(res.vals) = << <<(<<"x">>), (<<"y">>), (<<"x">>)>>,
                            <<(<<"x">>), (<<"y">>), (<<"y">>)>> >>

\* The texts appended as comments.
Comments == {<<>>, <<"c">>, <<"c", "d">>}
WithComment(s, c) == s \o <<" ", "/", "/">> \o c

SameValues(r1, r2) == r1.panic = r2.panic /\ (r1.err = <<>>) = (r2.err = <<>>) /\ r1.vals = r2.vals

\* C7: no character of a comment is returned as a token or is a word of a
\* Value: appending a space and a // comment to the last line of a text that
\* Parse accepts does not change the Values Parse returns.
C7_CommentIgnored ==
  (lastOp = "Parse" /\ ~PFailed(res)) =>
    \A c \in Comments : SameValues(Parse(WithComment(input, c)), res)

\* The positions of s at which a call of next() starts on a semicolon or a
\* newline and returns it as a line separator, up to the first end-of-input.
RECURSIVE sepPositions(_, _)
sepStep(s0, r, len) ==
  IF r.panic # "" \/ r.tok.kind \in {tokEOF, tokErr} THEN {}
  ELSE (IF r.tok.kind = "\n" /\ Len(s0) > 0 /\ s0[1] \in {";", "\n"}
        THEN {len - Len(s0) + 1} ELSE {})
       \cup sepPositions(r.l, len)
sepPositions(l, len) == sepStep(skipHorizontalSpace(l.s), lexNext(l), len)
SepPositions(s) == sepPositions(newLexer(s, "<no file>"), Len(s))

\* s with the separator at i replaced by the other separator.
Swap(s, i) == [s EXCEPT ![i] = IF s[i] = ";" THEN "\n" ELSE ";"]

SameWords(r1, r2) ==
  /\ r1.panic = r2.panic
  /\ (r1.err = <<>>) = (r2.err = <<>>)
  /\ WordsOf(r1.vals) = WordsOf(r2.vals)

Insert(s, i, c) == Take(s, i) \o <<c>> \o Drop(s, i)

\* Where an extra separator sits between groups: before the first character,
\* behind the last one, and on either side of a separator next() returns.
GapPositions(s) ==
  {0, Len(s)} \cup SepPositions(s) \cup {i - 1 : i \in SepPositions(s)}

\* s[i] is a backslash with only horizontal space between it and the newline
\* that ends its line.
EndsLine(s, i) ==
  /\ s[i] = "\\"
  /\ Len(skipHorizontalSpace(Drop(s, i))) > 0
  /\ skipHorizontalSpace(Drop(s, i))[1] = "\n"

\* The index of the newline behind the backslash at i.
NewlineBehind(s, i) == Len(s) - Len(skipHorizontalSpace(Drop(s, i))) + 1

\* s with the backslash at i and the newline that ends its line blanked out.
Joined(s, i) == [s EXCEPT ![i] = " ", ![NewlineBehind(s, i)] = " "]

\* The positions of s at which a call of next() starts on a backslash that
\* ends its line, up to the first end-of-input.
RECURSIVE contPositions(_, _)
contStep(s0, r, len) ==
  (IF Len(s0) > 0 /\ EndsLine(s0, 1) THEN {len - Len(s0) + 1} ELSE {})
    \cup (IF r.panic # "" \/ r.tok.kind \in {tokEOF, tokErr} THEN {}
          ELSE contPositions(r.l, len))
contPositions(l, len) == contStep(skipHorizontalSpace(l.s), lexNext(l), len)
ContPositions(s) == contPositions(newLexer(s, "<no file>"), Len(s))

FirstKind(s) == lexNext(newLexer(s, "<no file>")).tok.kind


\* r failed with error e and gave no Values.
FailedWith(r, e) == r.panic = "" /\ r.err # <<>> /\ r.err[3] = e /\ r.vals = <<>>

\* The input is the block p(inner) with suf behind its close delimiter, where
\* inner parses on its own to in and suf to after: what Parse gave, by the
\* kind k of the token behind the close delimiter.
ClosedBy(r, p, in, after, k) ==
  CASE k \in {tokWord, tokString, "("} -> FailedWith(r, ErrCloseFollowed)
    [] k \in {"\n", tokEOF} ->
         ~PFailed(after) =>
           /\ ~PFailed(r)
           /\ WordsOf(r.vals) = Prefixed(p.words, WordsOf(in.vals)) \o WordsOf(after.vals)
    [] k = ")" -> FailedWith(r, ErrUnexpectedClose)
    [] OTHER -> TRUE

IsBlockThen(s, p, suf) ==
  /\ Len(s) >= Len(suf)
  /\ Drop(s, Len(s) - Len(suf)) = suf
  /\ IsBlockOf(Take(s, Len(s) - Len(suf)), p)

InnerThen(s, p, suf) == InnerOf(Take(s, Len(s) - Len(suf)), p)

CloseRule(r, s, p, suf, in) ==
  ~PFailed(in) => ClosedBy(r, p, in, Parse(suf), FirstKind(suf))

\* C13: the close delimiter of a block whose inner text is well formed ends
\* the block when a line separator, the end of the input or another close
\* delimiter follows it (the block's Values are returned, or the enclosing
\* level sees the next close delimiter); when a word, a quoted string or an
\* open delimiter follows it, Parse fails with the close-delimiter error and
\* returns no Values.
C13_CloseDelimiter ==
  lastOp = "Parse" =>
    \A p \in Prefixes : \A suf \in Suffixes :
      IsBlockThen(input, p, suf) =>
        CloseRule(res, input, p, suf, Parse(InnerThen(input, p, suf)))

\* C13's case: "(\n) x" parsed: the close-delimiter error and no Values.
C13_Witness ==
  /\ lastOp = "Parse"
  /\ input = <<"(", "\n", ")", " ", "x">>
  /\ FailedWith(res, ErrCloseFollowed)

\* The kinds of the tokens next() returns up to the first end-of-input or
\* error token; a panic ends the sequence.
RECURSIVE kindsFrom(_)
kindsStep(r) ==
  IF r.panic # "" THEN <<>>
  ELSE IF r.tok.kind \in {tokEOF, tokErr} THEN <<r.tok.kind>>
  ELSE <<r.tok.kind>> \o kindsFrom(r.l)
kindsFrom(l) == kindsStep(lexNext(l))
KindsOf(s) == kindsFrom(newLexer(s, "<no file>"))

\* How many of the first n kinds of ks are k.
Count(ks, n, k) == Cardinality({i \in 1..n : ks[i] = k})

\* Some close delimiter has no open delimiter before it to match.
UnmatchedClose(ks) == \E n \in 1..Len(ks) : Count(ks, n, ")") > Count(ks, n, "(")

\* The end of the input is reached with a block still open.
OpenAtEnd(ks) ==
  /\ Len(ks) > 0 /\ ks[Len(ks)] = tokEOF
  /\ Count(ks, Len(ks), "(") > Count(ks, Len(ks), ")")

Unbalanced(ks) == UnmatchedClose(ks) \/ OpenAtEnd(ks)

\* r is an error and no Values.
Rejected(r) == r.panic = "" /\ r.err # <<>> /\ r.vals = <<>>

\* C14: Parse returns an error and no Values for every input whose tokens,
\* up to the end of the input, hold a close delimiter that matches no open
\* delimiter or leave a block open.
C14_Balanced ==
  lastOp = "Parse" => (Unbalanced(KindsOf(input)) => Rejected(res))

\* Parse accepted s with result r, and each text with one more separator in
\* a gap of s gives r's word lists.
SeparatorsAddNothing(s, r) ==
  ~PFailed(r) =>
    \A i \in GapPositions(s) : \A c \in {";", "\n"} :
      SameWords(Parse(Insert(s, i, c)), r)

\* The input as it is, and with a comment behind its last line.
Commented(s) == {s} \cup {WithComment(s, c) : c \in Comments}

\* C11: one more semicolon or newline next to a line separator, before the
\* first group or behind the last character of a text that Parse accepts
\* leaves the word lists, their order and the success of Parse as they were.
C11_ExtraSeparators ==
  lastOp = "Parse" =>
    \A s \in Commented(input) : SeparatorsAddNothing(s, Parse(s))

----------------------------------------------------------------------------
(* UnmarshalValues driven one Value at a time *)

wcommand == <<"c", "o", "m", "m", "a", "n", "d">>
wcommands == <<"c", "o", "m", "m", "a", "n", "d", "s">>
wcreate == <<"c", "r", "e", "a", "t", "e">>
wdelete == <<"d", "e", "l", "e", "t", "e">>
warg == <<"a", "r", "g">>
wname == <<"n", "a", "m", "e">>
wstring == <<"s", "t", "r", "i", "n", "g">>
wsize == <<"s", "i", "z", "e">>
wint == <<"i", "n", "t">>
wrequire == <<"r", "e", "q", "u", "i", "r", "e">>
wreq == <<"r", "e", "q">>
wBox == <<"B", "o", "x">>
wboxes == <<"b", "o", "x", "e", "s">>
wbox == <<"b", "o", "x">>
wGlass == <<"G", "l", "a", "s", "s">>
wglasses == <<"g", "l", "a", "s", "s", "e", "s">>
wglass == <<"g", "l", "a", "s", "s">>
wx == <<"x">>
wy == <<"y">>

Keys == {wcreate, wdelete}
ArgWords == {<<warg, wname, wstring>>, <<warg, wsize, wint>>}

\* The word lists of Values meant for a commands struct: a selector, an ID
\* and an Arg; and some that are shorter or select nothing.
CommandWords ==
  {<<sel, k>> \o a : sel \in {wcommand, wCommands}, k \in Keys, a \in ArgWords}
    \cup {<<wcommands, k>> : k \in Keys}
    \cup {<<wcommand>>, <<wx, wcreate>>, <<wcommand, wcreate, wx>>}

IntWords == {<<"7">>, <<"-", "7">>, <<"+", "7">>, <<"1", "2", "7">>, <<"1", "2", "8">>,
             <<"-", "1", "2", "9">>, <<"2", "5", "5">>, <<"3", "0", "0">>, <<"-">>, wx, <<>>}
BoolWords == {w1, w0, wt, wT, wtrue, wTRUE, wTrue, wf, wF, wfalse, wFALSE, wFalse,
              <<"t", "R", "U", "E">>, wx, <<>>}

ThingWords ==
  {<<i, b>> : i \in {<<"7">>, <<"-", "7">>, wx}, b \in BoolWords}
    \cup {<<<<"7">>>>, <<<<"7">>, wtrue, wx>>}
WidthsWords == {<<i, j>> : i \in IntWords, j \in IntWords}
EnumWords == {<<wx>>, <<wx, wy>>, <<wx, wy, wx>>}
ReqsWords == {<<wx, wreq, wx, wy>>, <<wx, wReqs, wx>>, <<wx, wx>>,
              <<wreq, wreq, wx, wy>>, <<wx, wreq>>}
whello == <<"h", "e", "l", "l", "o">>
wbig == <<"b", "i", "g">>
wworld == <<"w", "o", "r", "l", "d">>
\* The words of Values meant for a Thing: a word for A, and up to three more.
ABCWords ==
  {<<a>> \o rest : a \in {<<"1", "7">>, <<"-", "7">>, wx},
                   rest \in {<<>>, <<whello>>, <<whello, wbig>>, <<whello, wbig, wworld>>}}

\* The words of Values meant for an owner: two words for A and B, a selector,
\* and the words of a Require; and some with a selector where B is expected.
OwnerWords ==
  {<<<<"7">>, b, s>> \o r : b \in {wx, wreq}, s \in {wreq, wBox},
                            r \in {<<>>, <<wx>>, <<wx, wy>>}}
    \cup {<<<<"7">>, wx>>, <<<<"7">>, wx, wy>>}

\* Values for an owner that end before its scalar fields do: no word, and
\* a word for A only.  They follow a Value that has set every field it can.
OwnerShort == {<<>>, <<<<"-", "7">>>>}
OwnerThenShort ==
  {<<f, s>> : f \in {<<<<"7">>, wx, wreq, wx, wy>>, <<<<"7">>, wx, wBox, wx>>},
              s \in OwnerShort}
    \cup {<<s>> : s \in OwnerShort}

\* Values that start with the name of the scalar field of namedReqs, or are
\* one word.
NameWords == {<<wname, wx>>, <<wname, wy>>, <<wname>>, <<wx>>, <<wy>>}
witem == <<"i", "t", "e", "m">>
BadWords == {<<wx>>, <<wx, wy>>, <<wx, witem, wy>>, <<wx, witem>>}
wRequire == <<"R", "e", "q", "u", "i", "r", "e">>
wrequires == <<"r", "e", "q", "u", "i", "r", "e", "s">>
wREQUIRE == <<"R", "E", "Q", "U", "I", "R", "E">>
wrEQUIRES == <<"r", "E", "Q", "U", "I", "R", "E", "S">>
RequireWords == {<<wrequire, wx, wy>>, <<wRequires, wy, wx>>, <<wrequire>>,
                 <<wrequire, wx, wy, wx>>, <<wRequire, wy>>, <<wrequires, wx>>,
                 <<wREQUIRE, wx, wy>>, <<wrEQUIRES, wx>>}

\* A word that may select a field of shelf, and the words of a Require.
ShelfWords ==
  {<<s, wx, wy>> : s \in {wBoxes, wBox, wboxes, wbox, wGlasses, wGlass, wglasses, wglass,
                          <<"b", "o", "x", "s">>, <<"g", "l", "a", "s">>,
                          <<"B", "O", "X">>, <<"g", "l", "a", "S", "S">>}}

\* The Values of a source file "f" whose k-th line holds the k-th word list.
ValuesOf(ws) == [k \in 1..Len(ws) |-> [Words |-> ws[k], File |-> "f", Line |-> k]]

Lists(W, n) == UNION {[1..k -> W] : k \in 0..n}

Call(t, ws) == [t |-> t, vals |-> ValuesOf(ws)]

\* The calls of UnmarshalValues: the type p points to, and the Values.
UnmInputs ==
  {Call(TStruct("commands"), ws) : ws \in Lists(CommandWords, MaxVals)}
    \cup {Call(TStruct("thing"), ws) : ws \in Lists(ThingWords, 1)}
    \cup {Call(TStruct("widths"), ws) : ws \in Lists(WidthsWords, 1)}
    \cup {Call(TStruct("enum"), ws) : ws \in Lists(EnumWords, 1)}
    \cup {Call(TStruct("namedReqs"), ws) : ws \in Lists(ReqsWords \cup NameWords, 2)}
    \cup {Call(TStruct("nrs"), ws) : ws \in Lists(RequireWords, 2)}
    \cup {Call(TStruct("pnrs"), ws) : ws \in Lists(RequireWords, 2)}
    \cup {Call(TStruct("Thing"), ws) : ws \in Lists(ABCWords, 2)}
    \cup {Call(TStruct("reqsNamed"), ws) : ws \in Lists(ReqsWords \cup NameWords, 1)}
    \cup {Call(TStruct("owner"), ws) : ws \in Lists(OwnerWords, 2)}
    \cup {Call(TStruct("owner"), ws) : ws \in OwnerThenShort}
    \cup {Call(TStruct("shelf"), ws) : ws \in Lists(ShelfWords, 2)}
    \cup {Call(TStruct("badenum"), ws) : ws \in Lists(BadWords, 2)}
    \cup {Call(TStruct("badouter"), ws) : ws \in Lists(BadWords, 2)}
    \cup {Call(TInt, ws) : ws \in Lists({<<<<"7">>>>}, 1)}

InitUnm ==
  /\ mode = "unmarshal"
  /\ input \in UnmInputs
  /\ lex = newLexer(<<>>, "")
  /\ lastOp = ""
  /\ lastTok = NoTok
  /\ out = <<>>
  /\ peeked = {}
  /\ firstErr = NoTok
  /\ panic = ""
  /\ res = NoRes
  /\ programs = NoMap
  /\ target = RV(input.t, Zero(input.t))
  /\ pending = <<>>
  /\ last = NoLast
  /\ GoIdle

ErrNotStruct == [msg |-> "second argument must be pointer to struct", File |-> "", Line |-> 0]

\* UnmarshalValues is called (lines 23-27): the check of its second argument.
UnmarshalValues ==
  /\ mode = "unmarshal" /\ lastOp = ""
  /\ IF target.t.kind # "struct"
     THEN lastOp' = "return" /\ last' = [last EXCEPT !.err = ErrNotStruct] /\ pending' = pending
     ELSE lastOp' = "range" /\ last' = last /\ pending' = input.vals
  /\ UNCHANGED <<mode, input, lexvars, panic, programs, target, gvars>>

\* unmarshalValue(val, rv) has returned r.
UnmarshalRet(val, r) ==
  /\ target' = r.rv
  /\ programs' = r.progs
  /\ panic' = r.panic
  /\ last' = [val |-> val, err |-> r.err, used |-> r.used, nomatch |-> r.nomatch,
              before |-> target]
  /\ pending' = Tail(pending)
  /\ lastOp' = IF r.err.msg # "" \/ r.panic # "" THEN "return" ELSE "range"
  /\ UNCHANGED <<mode, input, lexvars, gvars>>

\* One iteration of the loop over vals (lines 29-33).
UnmarshalNext ==
  /\ mode = "unmarshal" /\ lastOp = "range" /\ Len(pending) > 0
  /\ UnmarshalRet(Head(pending), unmarshalValue(Head(pending), target, programs))

\* The loop is over: UnmarshalValues returns nil (line 34).
UnmarshalReturn ==
  /\ mode = "unmarshal" /\ lastOp = "range" /\ Len(pending) = 0
  /\ lastOp' = "return"
  /\ UNCHANGED <<mode, input, lexvars, panic, uvars, gvars>>

NextUnm == UnmarshalValues \/ UnmarshalNext \/ UnmarshalReturn

SpecUnm == InitUnm /\ [][NextUnm]_vars

----------------------------------------------------------------------------
(* Claims about the decode engine, checked under SpecUnm *)

\* UnmarshalValues is ranging over the Values, or has returned after doing so.
Ranging == mode = "unmarshal" /\ lastOp # "" /\ target.t.kind = "struct"

\* The Values unmarshalValue has been called with so far, in order.
Done == SubSeq(input.vals, 1, Len(input.vals) - Len(pending))

\* v is "command K arg N T" (or "Commands K arg N T") with K one of Keys.
IsCommandValue(v) ==
  /\ Len(v.Words) = 5
  /\ v.Words[1] \in {wcommand, wCommands}
  /\ v.Words[2] \in Keys
  /\ <<v.Words[3], v.Words[4], v.Words[5]>> \in ArgWords

KeyOf(v) == v.Words[2]
ArgOf(v) == (wName :> v.Words[4]) @@ (wType :> v.Words[5])

CommandsOnly ==
  /\ Ranging /\ target.t = TStruct("commands")
  /\ \A i \in 1..Len(Done) : IsCommandValue(Done[i])

\* C2: when all the Values decoded so far into the Commands collection carry
\* the same identity key, decoding succeeds and the collection holds exactly
\* one element, whose Name is that key and whose Args are the Values' Args in
\* input order.
C2_SameKeyOneElement ==
  (/\ CommandsOnly /\ Len(Done) >= 1
   /\ \A i \in 1..Len(Done) : KeyOf(Done[i]) = KeyOf(Done[1]))
  => /\ last.err = NoError /\ panic = ""
     /\ Len(target.v[wCommands]) = 1
     /\ target.v[wCommands][1][wName] = KeyOf(Done[1])
     /\ target.v[wCommands][1][wArgs] = [i \in 1..Len(Done) |-> ArgOf(Done[i])]

\* "command create arg name string; command create arg size int" has been
\* decoded and UnmarshalValues has returned.
C2_Witness ==
  /\ CommandsOnly /\ lastOp = "return"
  /\ [i \in 1..Len(Done) |-> Done[i].Words]
       = <<<<wcommand, wcreate, warg, wname, wstring>>,
           <<wcommand, wcreate, warg, wsize, wint>>>>
  /\ Len(target.v[wCommands]) = 1
  /\ target.v[wCommands][1][wName] = wcreate
  /\ Len(target.v[wCommands][1][wArgs]) = 2

\* The keys of vs with later repetitions of a key left out.
RECURSIVE FirstOccurrences(_)
FirstOccurrences(vs) ==
  IF vs = <<>> THEN <<>>
  ELSE IF \E i \in 1..(Len(vs) - 1) : KeyOf(vs[i]) = KeyOf(vs[Len(vs)])
  THEN FirstOccurrences(Take(vs, Len(vs) - 1))
  ELSE Append(FirstOccurrences(Take(vs, Len(vs) - 1)), KeyOf(vs[Len(vs)]))

\* C3: after any sequence of Values dispatched to the identity-keyed Commands
\* collection, the collection holds one element per distinct key, in order of
\* first occurrence.
C3_OneElementPerKey ==
  CommandsOnly =>
    [i \in 1..Len(target.v[wCommands]) |-> target.v[wCommands][i][wName]]
      = FirstOccurrences(Done)

\* C4: a call of unmarshalValue that returns no error has handed every word
\* of the Value to an operation (or matched it as a selector or ID), and a
\* call in which some word matched neither a position nor a selector returns
\* an error.
C4_AllWordsConsumed ==
  (Ranging /\ Len(Done) >= 1 /\ panic = "") =>
    /\ last.err = NoError => last.used = Len(last.val.Words)
    /\ last.nomatch => last.err.msg = "could not set"

\* "7 true x" was decoded into a thing: x matches nothing after two words.
C4_Witness ==
  /\ Ranging /\ target.t = TStruct("thing")
  /\ last.val.Words = <<<<"7">>, wtrue, wx>>
  /\ last.nomatch /\ last.used = 2 /\ last.err.msg = "could not set"

\* C5: a boolean field accepts exactly the words "true" and "false"; any
\* other word is a decode error and leaves the field as it was.
C5_BoolExact ==
  (/\ Ranging /\ target.t = TStruct("thing")
   /\ Len(Done) = 1 /\ Len(last.val.Words) = 2
   /\ last.val.Words[1] = <<"7">>
   /\ last.val.Words[2] \notin {wtrue, wfalse})
  => /\ last.err # NoError
     /\ target.v[wGood] = last.before.v[wGood]

\* The number a base-10 word denotes: an optional sign and digits.
IsNumber(w) ==
  /\ Len(w) >= 1
  /\ IF w[1] \in {"+", "-"}
     THEN Len(w) >= 2 /\ \A i \in 2..Len(w) : IsDigit(w[i])
     ELSE \A i \in 1..Len(w) : IsDigit(w[i])
NumberOf(w) ==
  IF w[1] = "-" THEN 0 - Atoi(Tail(w))
  ELSE IF w[1] = "+" THEN Atoi(Tail(w))
  ELSE Atoi(w)

\* C6: a word is decoded into an integer field only if it denotes a number
\* that fits the field's type, and then the field holds that number; any
\* other word is a decode error.
C6_FullWidth ==
  (/\ Ranging /\ target.t = TStruct("widths")
   /\ Len(Done) = 1 /\ Len(last.val.Words) = 2)
  => /\ (~IsNumber(last.val.Words[1]) \/ NumberOf(last.val.Words[1]) \notin -128..127)
          => last.err # NoError
     /\ last.err = NoError =>
          /\ target.v[wSmall] = NumberOf(last.val.Words[1])
          /\ IsNumber(last.val.Words[2])
          /\ NumberOf(last.val.Words[2]) \in 0..255
          /\ target.v[wBig] = NumberOf(last.val.Words[2])

\* C15: a struct with a scalar-slice field before its last field, given to
\* UnmarshalValues itself or as the element type of a struct-slice field, is
\* rejected by compile: the call with the first Value returns the error, no
\* word has been handed to an operation, the target is as it was, and the
\* programs cache holds no program for the struct or the struct around it.
C15_ScalarSliceNotLast ==
  (Ranging /\ target.t \in {TStruct("badenum"), TStruct("badouter")} /\ Len(Done) >= 1)
  => /\ Len(Done) = 1 /\ lastOp = "return" /\ panic = ""
     /\ last.err = ErrAt(Done[1], ErrNotLast)
     /\ last.used = 0
     /\ target = last.before /\ target.v = Zero(target.t)
     /\ "badenum" \notin DOMAIN programs
     /\ "badouter" \notin DOMAIN programs

\* "x item y" was given for a badouter: the error of its element type.
C15_Witness ==
  /\ Ranging /\ target.t = TStruct("badouter")
  /\ Len(input.vals) = 2 /\ Len(Done) = 1 /\ Len(pending) = 1
  /\ last.val.Words = <<wx, witem, wy>>
  /\ last.err.msg = ErrNotLast /\ last.err.Line = 1
  /\ programs = NoMap

\* The words whose plural is n.
Singulars(n) == {w \in {Take(n, Len(n) - 1), Take(n, Len(n) - 2)} : plural(w) = n}

\* The words the claim lets select a field named n.
SelectorsOf(n) ==
  {n, lowerFirst(n)} \cup Singulars(n) \cup Singulars(lowerFirst(n))

\* The Require that the words ws decode into.
RequireOf(ws) ==
  (wModule :> (IF Len(ws) >= 1 THEN ws[1] ELSE <<>>))
    @@ (wVersion :> (IF Len(ws) >= 2 THEN ws[2] ELSE <<>>))

FieldNames(t) == {StructFields(t.name)[i].Name : i \in 1..Len(StructFields(t.name))}

\* The Value just decoded appended RequireOf(its other words) to field n and
\* left the other fields alone.
Selected(n) ==
  /\ last.err = NoError /\ ~last.nomatch
  /\ target.v = [last.before.v EXCEPT ![n] = Append(@, RequireOf(Tail(last.val.Words)))]

\* C16: a field that is a slice of structs is selected by its name, by its
\* name with the first letter lower-cased, and by the words whose plural
\* (word + "es" behind 's' or 'x', word + "s" otherwise) is one of those two:
\* a Value that starts with such a word appends one element to that field.
C16_SelectorWords ==
  (/\ Ranging /\ target.t \in {TStruct("nrs"), TStruct("shelf")} /\ Len(Done) >= 1
   /\ Len(last.val.Words) \in 1..3)
  => \A n \in FieldNames(target.t) :
       last.val.Words[1] \in SelectorsOf(n) => Selected(n)

\* "Box x y" and then "glasses x y" were decoded into a shelf.
C16_Witness ==
  /\ Ranging /\ target.t = TStruct("shelf") /\ lastOp = "return"
  /\ [i \in 1..Len(Done) |-> Done[i].Words] = <<<<wBox, wx, wy>>, <<wglasses, wx, wy>>>>
  /\ wBox \in SelectorsOf(wBoxes) /\ wglasses \in SelectorsOf(wGlasses)
  /\ target.v[wBoxes] = <<RequireOf(<<wx, wy>>)>>
  /\ target.v[wGlasses] = <<RequireOf(<<wx, wy>>)>>

\* w with every letter lower-cased.
Fold(w) == [i \in 1..Len(w) |-> ToLower(w[i])]

\* w is a selector of field n when the case of letters is ignored.
SelectsIgnoringCase(w, n) == \E s \in SelectorsOf(n) : Fold(w) = Fold(s)

\* w is a selector of field n when the case of the first letter is ignored.
SelectsIgnoringFirst(w, n) ==
  \E s \in SelectorsOf(n) :
    /\ Len(w) = Len(s)
    /\ \A i \in 1..Len(w) : IF i = 1 THEN ToLower(w[i]) = ToLower(s[i]) ELSE w[i] = s[i]

\* The Value just decoded selected nothing: its first word found no
\* operation and the struct is as it was.
NothingSelected ==
  /\ last.nomatch /\ last.used = 0
  /\ last.err = ErrAt(last.val, "could not set")
  /\ target = last.before

TwiceName ==
  /\ Ranging /\ target.t = TStruct("namedReqs") /\ lastOp = "return"
  /\ Len(input.vals) = 2
  /\ \A i \in 1..2 : /\ Len(input.vals[i].Words) >= 1
                     /\ SelectsIgnoringCase(input.vals[i].Words[1], wName)

C19_PositionalThenRest ==
  /\ (/\ Ranging /\ target.t = TStruct("Thing") /\ Len(Done) >= 1
      /\ IsNumber(last.val.Words[1]))
     => /\ last.err = NoError /\ ~last.nomatch
        /\ last.used = Len(last.val.Words)
        /\ target.v[wA] = NumberOf(last.val.Words[1])
        /\ target.v[wB] = IF Len(last.val.Words) >= 2 THEN last.val.Words[2]
                          ELSE last.before.v[wB]
        /\ target.v[wC] = last.before.v[wC] \o Drop(last.val.Words, 2)
  /\ (Ranging /\ target.t = TStruct("enum") /\ Len(Done) >= 1)
     => /\ last.err = NoError
        /\ target.v[wName] = last.val.Words[1]
        /\ target.v[wValues] = last.before.v[wValues] \o Tail(last.val.Words)

\* "17 hello big world" was decoded into a Thing.
C19_Witness ==
  /\ Ranging /\ target.t = TStruct("Thing") /\ Len(Done) = 1
  /\ last.val.Words = <<<<"1", "7">>, whello, wbig, wworld>>
  /\ target.v = (wA :> 17) @@ (wB :> whello) @@ (wC :> <<wbig, wworld>>)
  /\ last.err = NoError

\* The Value just decoded gave its n-th word to the scalar field sc, for
\* each (n, sc) of the sequence scalars, took the next word as the selector
\* of the field coll, and appended the Require of the words behind it.
Dispatched(scalars, coll) ==
  /\ last.err = NoError /\ ~last.nomatch
  /\ last.used = Len(last.val.Words)
  /\ target.v =
       [n \in DOMAIN target.v |->
          IF n = coll
          THEN Append(last.before.v[n], RequireOf(Drop(last.val.Words, Len(scalars) + 1)))
          ELSE IF \E k \in 1..Len(scalars) : scalars[k] = n
          THEN LET k == CHOOSE k \in 1..Len(scalars) : scalars[k] = n
               IN IF n = wA THEN NumberOf(last.val.Words[k]) ELSE last.val.Words[k]
          ELSE last.before.v[n]]

\* C20: in a struct of N scalar fields followed by slice-of-struct fields,
\* the first N words of a Value go to the scalar fields by position, also
\* when such a word is spelled like a selector; the word at offset N selects
\* a slice-of-struct field, and the words behind it make one new element.
C20_NoCollision ==
  /\ (/\ Ranging /\ target.t = TStruct("namedReqs") /\ Len(Done) >= 1
      /\ Len(last.val.Words) \in 2..4
      /\ last.val.Words[2] \in SelectorsOf(wReqs))
     => Dispatched(<<wName>>, wReqs)
  /\ (/\ Ranging /\ target.t = TStruct("owner") /\ Len(Done) >= 1
      /\ Len(last.val.Words) \in 3..5)
     => \A c \in {wReqs, wBoxes} :
          last.val.Words[3] \in SelectorsOf(c) => Dispatched(<<wA, wB>>, c)

\* "req req x y" was decoded into a namedReqs: Name is "req", and Reqs has
\* the one element {x, y}.
C20_Witness ==
  /\ Ranging /\ target.t = TStruct("namedReqs") /\ Len(Done) = 1
  /\ last.val.Words = <<wreq, wreq, wx, wy>>
  /\ target.v[wName] = wreq
  /\ target.v[wReqs] = <<RequireOf(<<wx, wy>>)>>
  /\ last.err = NoError

----------------------------------------------------------------------------
(* programFor called by several goroutines.  programs is a sync.Map: Load   *)
(* and Store are atomic, and what a goroutine does between them is its own. *)
(* Each goroutine has a stack of frames, one for each call of programFor    *)
(* that has not returned; a frame is at "load" (line 108), in the "loop" of *)
(* compile over the fields, at "wait" for the programFor of line 232, or    *)
(* has "got" what that call returned.  A *program is the program it points  *)
(* to and its address, which is the goroutine and the depth of the call     *)
(* that allocated it.                                                       *)

Goroutines == 1..MaxProcs

Ret(p, addr, err) == [done |-> TRUE, p |-> p, addr |-> addr, err |-> err]
NoAddr == <<>>
NotReturned == [done |-> FALSE, p |-> NewProgram(TString), addr |-> NoAddr, err |-> ""]

Frame(t, st, sfs, i, p, addr, sub) ==
  [t |-> t, st |-> st, sfs |-> sfs, i |-> i, p |-> p, addr |-> addr, sub |-> sub]
LoadFrame(t) == Frame(t, "load", <<>>, 0, NewProgram(t), NoAddr, NotReturned)

Top(g) == frames[g][Len(frames[g])]
Below(g) == SubSeq(frames[g], 1, Len(frames[g]) - 1)
SetTop(g, f) == [frames EXCEPT ![g] = Append(Below(g), f)]

\* The types the goroutines call programFor with.
Shapes == {"Require", "namedReqs", "commands", "command", "badouter", "tree", "ping"}
Recursive == {"tree", "ping", "pong"}
ProgInputs ==
  {[g \in Goroutines |-> TStruct(n)] : n \in Shapes}
    \cup {[g \in Goroutines |-> TStruct(IF g = 1 THEN a ELSE b)] :
            a \in {"commands", "namedReqs"}, b \in {"command", "Require", "tree"}}

InitProg ==
  /\ mode = "programFor"
  /\ input \in ProgInputs
  /\ lex = newLexer(<<>>, "")
  /\ lastOp = ""
  /\ lastTok = NoTok
  /\ out = <<>>
  /\ peeked = {}
  /\ firstErr = NoTok
  /\ panic = ""
  /\ res = NoRes
  /\ UnmIdle
  /\ frames = [g \in Goroutines |-> <<LoadFrame(input[g])>>]
  /\ returned = [g \in Goroutines |-> NotReturned]
  /\ addrOf = NoMap
  /\ firstOf = NoMap

\* The call of programFor on top of g's stack returns r: to the call of
\* compile below it, or to the goroutine.
Return(g, r) ==
  IF Len(frames[g]) = 1
  THEN /\ frames' = [frames EXCEPT ![g] = <<>>]
       /\ returned' = [returned EXCEPT ![g] = r]
  ELSE /\ frames' = [frames EXCEPT ![g] =
                       Append(SubSeq(frames[g], 1, Len(frames[g]) - 2),
                              [frames[g][Len(frames[g]) - 1] EXCEPT !.st = "got", !.sub = r])]
       /\ returned' = returned

\* programs.Load found nothing (lines 111-112): compile allocates the
\* program and looks for the ID field (lines 171-185).
missFrame(t, id, addr) ==
  Frame(t, "loop", IF id.ii # "nil" THEN Tail(StructFields(t.name)) ELSE StructFields(t.name),
        0, [NewProgram(t) EXCEPT !.idIndex = id.ii], addr, NotReturned)

Miss_Publish(g) ==
  IF idIndex(StructFields(Top(g).t.name)).err # ""
  THEN /\ Return(g, Ret(NewProgram(TString), NoAddr, idIndex(StructFields(Top(g).t.name)).err))
       /\ UNCHANGED <<programs, addrOf, firstOf>>
  ELSE /\ frames' = SetTop(g, missFrame(Top(g).t, idIndex(StructFields(Top(g).t.name)),
                                        <<g, Len(frames[g])>>))
       /\ returned' = returned
       /\ programs' = Put(programs, Top(g).t.name, NewProgram(Top(g).t))
       /\ addrOf' = Put(addrOf, Top(g).t.name, <<g, Len(frames[g])>>)
       /\ firstOf' = firstOf

Miss(g) ==
  /\ UNCHANGED <<programs, addrOf, firstOf>>
  /\ IF idIndex(StructFields(Top(g).t.name)).err # ""
     THEN Return(g, Ret(NewProgram(TString), NoAddr, idIndex(StructFields(Top(g).t.name)).err))
     ELSE /\ frames' = SetTop(g, missFrame(Top(g).t, idIndex(StructFields(Top(g).t.name)),
                                           <<g, Len(frames[g])>>))
          /\ returned' = returned

\* programFor begins (lines 108-110): programs.Load(t).
Load(g) ==
  /\ mode = "programFor" /\ Len(frames[g]) > 0 /\ Top(g).st = "load"
  /\ IF Top(g).t.name \in DOMAIN programs
     THEN /\ Return(g, Ret(programs[Top(g).t.name], addrOf[Top(g).t.name], ""))
          /\ UNCHANGED <<programs, addrOf, firstOf>>
     ELSE Miss(g)
  /\ UNCHANGED <<mode, input, lexvars, lastOp, panic, target, pending, last>>

\* compile's loop is at field f.sfs[f.i + 1] of frame f (lines 186-236): the
\* frame afterwards, which is at "err" when compile returns an error.
fieldStep_NoRecursion(f, sf) ==
  IF IsScalar(sf.Type)
  THEN [f EXCEPT !.i = f.i + 1, !.p.iops = Put(f.p.iops, f.i, scalarOp(sf))]
  ELSE IF sf.Type.kind # "slice" THEN [f EXCEPT !.i = f.i + 1]
  ELSE IF IsScalar(sf.Type.elem)
  THEN IF f.i + 1 # Len(f.sfs) THEN [f EXCEPT !.st = "err"]
       ELSE [f EXCEPT !.i = f.i + 1, !.p.iops = Put(f.p.iops, f.i, scalarsOp(sf))]
  ELSE IF Deref(sf.Type.elem) = f.t THEN [f EXCEPT !.i = f.i + 1]
  ELSE [f EXCEPT !.st = "wait"]

fieldStep(f, sf) ==
  IF IsScalar(sf.Type)
  THEN [f EXCEPT !.i = f.i + 1, !.p.iops = Put(f.p.iops, f.i, scalarOp(sf))]
  ELSE IF sf.Type.kind # "slice" THEN [f EXCEPT !.i = f.i + 1]
  ELSE IF IsScalar(sf.Type.elem)
  THEN IF f.i + 1 # Len(f.sfs) THEN [f EXCEPT !.st = "err"]
       ELSE [f EXCEPT !.i = f.i + 1, !.p.iops = Put(f.p.iops, f.i, scalarsOp(sf))]
  ELSE [f EXCEPT !.st = "wait"]

FieldRet(g, f, sf) ==
  CASE f.st = "err" -> Return(g, Ret(NewProgram(TString), NoAddr, ErrNotLast))
    [] f.st = "wait" ->
         /\ Len(frames[g]) < MaxDepth
         /\ frames' = [frames EXCEPT ![g] =
                         Append(Append(Below(g), f), LoadFrame(Deref(sf.Type.elem)))]
         /\ returned' = returned
    [] OTHER -> frames' = SetTop(g, f) /\ returned' = returned

\* One iteration of compile's loop over the fields.
CompileField(g) ==
  /\ mode = "programFor" /\ Len(frames[g]) > 0
  /\ Top(g).st = "loop" /\ Top(g).i < Len(Top(g).sfs)
  /\ FieldRet(g, fieldStep(Top(g), Top(g).sfs[Top(g).i + 1]), Top(g).sfs[Top(g).i + 1])
  /\ UNCHANGED <<mode, input, lexvars, lastOp, panic, uvars, addrOf, firstOf>>

\* The programFor of line 232 has returned f.sub (lines 233-235, 269-270).
resumeStep(f, sf) ==
  IF f.sub.err # "" THEN [f EXCEPT !.st = "err"]
  ELSE [f EXCEPT !.st = "loop", !.i = f.i + 1, !.sub = NotReturned,
                 !.p.wops = Put(Put(f.p.wops, sf.Name, structsOp(sf, f.sub.p)),
                                lowerFirst(sf.Name), structsOp(sf, f.sub.p))]

Resume(g) ==
  /\ mode = "programFor" /\ Len(frames[g]) > 0 /\ Top(g).st = "got"
  /\ IF resumeStep(Top(g), Top(g).sfs[Top(g).i + 1]).st = "err"
     THEN Return(g, Ret(NewProgram(TString), NoAddr, Top(g).sub.err))
     ELSE /\ frames' = SetTop(g, resumeStep(Top(g), Top(g).sfs[Top(g).i + 1]))
          /\ returned' = returned
  /\ UNCHANGED <<mode, input, lexvars, lastOp, panic, uvars, addrOf, firstOf>>

\* programs.LoadOrStore in the place of programs.Store
storeStep_LoadOrStore(m, k, v) == IF k \in DOMAIN m THEN m ELSE Put(m, k, v)

\* programs.Store(t, prog) (line 116)
storeStep(m, k, v) == Put(m, k, v)

\* compile has returned its program: programFor stores and returns it
\* (lines 116-117).
Store(g) ==
  /\ mode = "programFor" /\ Len(frames[g]) > 0
  /\ Top(g).st = "loop" /\ Top(g).i >= Len(Top(g).sfs)
  /\ programs' = storeStep(programs, Top(g).t.name, Top(g).p)
  /\ addrOf' = storeStep(addrOf, Top(g).t.name, Top(g).addr)
  /\ firstOf' = storeStep_LoadOrStore(firstOf, Top(g).t.name, Top(g).addr)
  /\ Return(g, Ret(Top(g).p, Top(g).addr, ""))
  /\ UNCHANGED <<mode, input, lexvars, lastOp, panic, target, pending, last>>

NextProg == \E g \in Goroutines : Load(g) \/ CompileField(g) \/ Resume(g) \/ Store(g)

SpecProg == InitProg /\ [][NextProg]_vars

----------------------------------------------------------------------------
(* Claims about programFor, checked under SpecProg *)

\* What compile gives for the struct named n when nothing else runs.
FreshCompile(n) == compile(TStruct(n), NoMap)

\* programFor has returned to goroutine g.
Returned(g) == mode = "programFor" /\ returned[g].done

\* C21: however the calls of programFor of several goroutines interleave,
\* each call returns what a compile of its type on its own gives, the whole
\* program or the error; every program in programs, and every program a
\* nested call handed to compile, is such a whole program; and once a call
\* has returned a program, programs holds one for its type.
C21_ConcurrentFirstUse ==
  mode = "programFor" =>
    /\ \A g \in Goroutines :
         (returned[g].done /\ input[g].name \notin Recursive)
         => /\ returned[g].err = FreshCompile(input[g].name).err
            /\ returned[g].err = ""
               => /\ returned[g].p = FreshCompile(input[g].name).p
                  /\ input[g].name \in DOMAIN programs
    /\ \A n \in DOMAIN programs :
         n \notin Recursive => programs[n] = FreshCompile(n).p
    /\ \A g \in Goroutines : \A k \in 1..Len(frames[g]) :
         (frames[g][k].st = "got" /\ frames[g][k].sub.err = ""
          /\ frames[g][k].sub.p.t.name \notin Recursive)
         => frames[g][k].sub.p = FreshCompile(frames[g][k].sub.p.t.name).p

\* Two goroutines both compiled commands: each has returned the program it
\* allocated itself, and programs holds a program for commands.
C21_Witness ==
  /\ \A g \in Goroutines : Returned(g) /\ input[g] = TStruct("commands")
  /\ returned[1].addr # returned[2].addr
  /\ returned[1].p = returned[2].p
  /\ programs["commands"] = FreshCompile("commands").p

\* C22 as stated: the program stored first for a type stays the cached
\* program of that type.
C22_FirstStoreStays ==
  mode = "programFor" => \A n \in DOMAIN addrOf : addrOf[n] = firstOf[n]

\* C22: when several goroutines miss the cache for one type and compile it,
\* each Store replaces what was stored before, so the cached program is the
\* one stored last; each of these goroutines returns the program it compiled
\* itself, and all of them are equal in content.
C22_LastStoreStays ==
  [][\A g \in Goroutines :
       (mode = "programFor" /\ Len(frames[g]) > 0 /\ Top(g).st = "loop"
        /\ Top(g).i >= Len(Top(g).sfs) /\ frames'[g] # frames[g])
       => /\ addrOf'[Top(g).t.name] = Top(g).addr
          /\ programs'[Top(g).t.name] = Top(g).p
          /\ Top(g).addr[1] = g
          /\ Top(g).t.name \in DOMAIN programs => programs[Top(g).t.name] = Top(g).p]_vars

\* Both goroutines compiled namedReqs and stored their programs: programs
\* holds the program of the goroutine that stored second.
C22_Witness ==
  /\ \A g \in Goroutines : Returned(g) /\ input[g] = TStruct("namedReqs")
  /\ \A g \in Goroutines : returned[g].addr = <<g, 1>>
  /\ firstOf["namedReqs"] = <<1, 1>>
  /\ addrOf["namedReqs"] = <<2, 1>>

\* C23: programFor of a struct that has a slice of its own type, or of a
\* struct that has a slice of it, never returns: no program of such a struct
\* is ever stored, so every nested call of programFor misses and calls
\* compile again, one level deeper, while every call above it waits.
C23_SelfNestingNeverReturns ==
  mode = "programFor" =>
    /\ \A n \in Recursive : n \notin DOMAIN programs
    /\ \A g \in Goroutines :
         input[g].name \in Recursive
         => /\ ~returned[g].done
            /\ Len(frames[g]) >= 1
            /\ \A k \in 1..Len(frames[g]) :
                 /\ frames[g][k].t.name \in Recursive
                 /\ k < Len(frames[g]) => frames[g][k].st = "wait"
                 /\ frames[g][k].st = "load" => k = Len(frames[g])

\* compile of tree is MaxDepth calls deep in goroutine 1, and each of the
\* calls has allocated a program of its own.
C23_Witness ==
  /\ mode = "programFor" /\ input[1] = TStruct("tree")
  /\ Len(frames[1]) = MaxDepth
  /\ \A k \in 1..MaxDepth :
       /\ frames[1][k].t = TStruct("tree")
       /\ frames[1][k].addr = <<1, k>>
  /\ Top(1).st = "loop" /\ Top(1).i = 1
  /\ "tree" \notin DOMAIN programs

----------------------------------------------------------------------------
(* Claims about the parser's positions, checked under SpecParse *)

\* A text of words, spaces, separators and delimiters only.
Plain(s) == \A i \in 1..Len(s) : s[i] \in {"x", "y", " ", "\n", ";", "(", ")"}

\* The lines on which the groups of words of a plain text are written, one
\* for each group that is ended by a newline, a semicolon, a close delimiter
\* or the end of the text (a group ended by an open delimiter is a prefix).
\* line is the line of character i, and start the line on which the group
\* being read started (0 when no group is being read).
RECURSIVE linesFrom(_, _, _, _)
linesFrom(s, i, line, start) ==
  IF i > Len(s) THEN IF start > 0 THEN <<start>> ELSE <<>>
  ELSE CASE s[i] = "\n" ->
              (IF start > 0 THEN <<start>> ELSE <<>>) \o linesFrom(s, i + 1, line + 1, 0)
         [] s[i] \in {";", ")"} ->
              (IF start > 0 THEN <<start>> ELSE <<>>) \o linesFrom(s, i + 1, line, 0)
         [] s[i] = "(" -> linesFrom(s, i + 1, line, 0)
         [] s[i] = " " -> linesFrom(s, i + 1, line, start)
         [] OTHER -> linesFrom(s, i + 1, line, IF start > 0 THEN start ELSE line)

LinesOf(s) == linesFrom(s, 1, 1, 0)

\* C24: every Value Parse returns has the name of the source and the number,
\* counted from 1, of the line its words are written on, whatever ends the
\* Value, and so has every Value made from a block.
C24_ValuePosition ==
  (lastOp = "Parse" /\ Plain(input) /\ ~PFailed(res))
  => /\ Len(res.vals) = Len(LinesOf(input))
     /\ \A k \in 1..Len(res.vals) :
          /\ res.vals[k].File = "<no file>"
          /\ res.vals[k].Line = LinesOf(input)[k]

----------------------------------------------------------------------------
(* More claims about the decode engine, checked under SpecUnm *)

\* C25: a Value that selects a field that is a slice of pointers to structs
\* appends one element, a pointer to a new struct that the other words of
\* the Value are decoded into, and nothing panics.
C25_PointerElements ==
  (/\ Ranging /\ target.t = TStruct("pnrs") /\ Len(Done) >= 1
   /\ Len(last.val.Words) \in 1..3
   /\ last.val.Words[1] \in SelectorsOf(wRequires))
  => /\ panic = "" /\ last.err = NoError
     /\ Len(target.v[wRequires]) = Len(last.before.v[wRequires]) + 1
     /\ target.v[wRequires][Len(target.v[wRequires])] # "nil"

\* C26: a scalar field is read from the word whose offset is the number of
\* scalar fields declared before it: in reqsNamed, where the only field
\* before Name is a slice of structs, Name is read from the first word.
C26_ScalarOffsets ==
  (/\ Ranging /\ target.t = TStruct("reqsNamed") /\ Len(Done) >= 1
   /\ Len(last.val.Words) >= 1)
  => target.v[wName] = last.val.Words[1]

----------------------------------------------------------------------------
(* More claims about the lexer, checked under SpecLex *)

\* The kinds of token next() may return.
TokenKinds == {tokWord, tokString, tokEOF, tokErr, "\n", "(", ")"}

\* C27: for every source text, every call of next() returns a token, a word,
\* a string, a separator, a delimiter, the end of input or an error, and
\* never panics.
C27_Total ==
  mode = "lex" => /\ panic = ""
                  /\ lastOp = "next" => lastTok.kind \in TokenKinds

\* C28: the end of input is final: once next() has returned the end-of-input
\* token, the lexer has no input left, and every later next() and peek()
\* gives end of input again.
C28_EndOfInputFinal ==
  mode = "lex" =>
    /\ \A k \in 1..(Len(out) - 1) : out[k].kind = tokEOF => out[k + 1].kind = tokEOF
    /\ (Len(out) >= 1 /\ out[Len(out)].kind = tokEOF)
       => /\ lex.s = <<>>
          /\ panic = ""
          /\ lastOp = "peek" => lastTok.kind = tokEOF

----------------------------------------------------------------------------
(* The pushback slot of the lexer as the parser uses it, under SpecParse *)

\* The lexer of Parse("x(x)") when parseList is entered: "x(" has been read.
InsideBlock == newLexer(<<"x", ")">>, "<no file>")

\* C29: the parser never fills the pushback slot of the lexer while the slot
\* is occupied: every unget and every filling peek comes after a next() that
\* emptied it, so no call of Parse ends in the panic "unget twice".
C29_NoUngetTwice ==
  lastOp = "Parse" => res.panic # "unget twice"

\* Parse("x(x)") has returned its one Value; on the way parseValues pushed the
\* close delimiter back and parseList then peeked at the end of input.
C29_Witness ==
  /\ lastOp = "Parse"
  /\ input = <<"x", "(", "x", ")">>
  /\ ~PFailed(res)
  /\ WordsOf(res.vals) = << << <<"x">>, <<"x">> >> >>
  /\ parseValues(lexNext(InsideBlock).tok, lexNext(InsideBlock).l).l.ungotten
  /\ parseValues(lexNext(InsideBlock).tok, lexNext(InsideBlock).l).l.untok.kind = ")"
  /\ parseList(InsideBlock, ")", <<>>).l.ungotten
  /\ parseList(InsideBlock, ")", <<>>).l.untok.kind = tokEOF

----------------------------------------------------------------------------
(* Values shorter than the struct they are decoded into, under SpecUnm *)

\* C30: run() ends when no word is left.  A Value with fewer words than the
\* struct has scalar fields, or whose words end before the final
\* scalar-slice field, is decoded without error; every field no word
\* reached, and every slice-of-struct field that was not selected, has the
\* value it had before the call.
C30_ShortValue ==
  /\ (/\ Ranging /\ target.t = TStruct("Thing") /\ Len(Done) >= 1
      /\ Len(last.val.Words) \in 1..2 /\ IsNumber(last.val.Words[1]))
     => /\ last.err = NoError /\ panic = ""
        /\ target.v[wA] = NumberOf(last.val.Words[1])
        /\ Len(last.val.Words) = 1 => target.v[wB] = last.before.v[wB]
        /\ target.v[wC] = last.before.v[wC]
  /\ (/\ Ranging /\ target.t = TStruct("owner") /\ Len(Done) >= 1
      /\ Len(last.val.Words) <= 2
      /\ Len(last.val.Words) >= 1 => IsNumber(last.val.Words[1]))
     => /\ last.err = NoError /\ panic = ""
        /\ Len(last.val.Words) = 0 => target.v[wA] = last.before.v[wA]
        /\ Len(last.val.Words) >= 1 => target.v[wA] = NumberOf(last.val.Words[1])
        /\ Len(last.val.Words) <= 1 => target.v[wB] = last.before.v[wB]
        /\ Len(last.val.Words) = 2 => target.v[wB] = last.val.Words[2]
        /\ target.v[wReqs] = last.before.v[wReqs]
        /\ target.v[wBoxes] = last.before.v[wBoxes]
  /\ (/\ Ranging /\ target.t \in {TStruct("enum"), TStruct("namedReqs")}
      /\ Len(Done) >= 1 /\ Len(last.val.Words) = 1)
     => /\ last.err = NoError /\ panic = ""
        /\ target.v[wName] = last.val.Words[1]
        /\ target.t = TStruct("enum") => target.v[wValues] = last.before.v[wValues]
        /\ target.t = TStruct("namedReqs") => target.v[wReqs] = last.before.v[wReqs]

\* "7 x req x y" and then "-7" were decoded into an owner: A is -7 now, and B
\* and the one element of Reqs are what the first Value made them.
C30_Witness ==
  /\ Ranging /\ target.t = TStruct("owner") /\ Len(Done) = 2
  /\ Done[1].Words = <<<<"7">>, wx, wreq, wx, wy>>
  /\ last.val.Words = <<<<"-", "7">>>>
  /\ last.err = NoError /\ panic = ""
  /\ last.before.v[wA] = 7 /\ target.v[wA] = 0 - 7
  /\ target.v[wB] = wx
  /\ target.v[wReqs] = <<RequireOf(<<wx, wy>>)>>
  /\ target.v[wBoxes] = <<>>

====
